---- MODULE Spec2Model ----
(***************************************************************************)
(* Encrypted-sync protocol core: epoch key ratchet and cache, DEK wrap,    *)
(* envelope codec, padding, transport pipeline, re-wrapping, signed edit   *)
(* chain and membership log.                                               *)
(*                                                                         *)
(* Byte strings are sequences of integers 0..255.  The primitives taken    *)
(* from external crates (HKDF-SHA256, AES-KW, AES-256-GCM, SHA-256, ECDSA  *)
(* P-256) are modelled as ideal symbolic functions: a derived key, a       *)
(* ciphertext, a digest or a signature is a term that records what it was  *)
(* made from, and opening it succeeds only with the matching key on an     *)
(* unmodified term.  Everything the repository's own code does around      *)
(* them (length checks, epoch prefixes, AAD layout, padding, CBOR layout,  *)
(* loops, caches, early returns) is modelled concretely.                   *)
(***************************************************************************)
EXTENDS Integers, Sequences, FiniteSets, TLC

VARIABLES
  enc,    \* EpochKeyCache of the writing session
  dec,    \* EpochKeyCache of the reading session
  wire,   \* what the relay holds: the last blob pushed, with what it was made from
  last,   \* the last call made on the pipeline and what it returned
  dk,     \* DEK wrap/unwrap scenario
  rw,     \* rewrap_deks scenario
  ch,     \* edit-chain scenario
  mb      \* membership-entry scenario

vars == <<enc, dec, wire, last, dk, rw, ch, mb>>

-----------------------------------------------------------------------------
(* Result<T, E> *)

Ok(v) == [ok |-> TRUE, val |-> v, err |-> "none"]
Err(e) == [ok |-> FALSE, val |-> "none", err |-> e]

\* Result equality that never compares values of different shapes.
SameResult(r1, r2) ==
  /\ r1.ok = r2.ok
  /\ IF r1.ok THEN r1.val = r2.val ELSE r1.err = r2.err

Idle == [op |-> "idle"]

-----------------------------------------------------------------------------
(* Program constants *)

AES_KEY_LENGTH == 32
AES_GCM_IV_LENGTH == 12
AES_GCM_TAG_LENGTH == 16
CURRENT_VERSION == 4
SUPPORTED_VERSIONS == {4}
WRAPPED_DEK_SIZE == 44
AES_KW_OUTPUT_SIZE == 40
MAX_EPOCH_ADVANCE == 1000
LENGTH_PREFIX_SIZE == 4

-----------------------------------------------------------------------------
(* Keys.  A key is a term: a root (fresh random bytes, named) of a given   *)
(* length, followed by the HKDF steps applied to it.  Consecutive steps in *)
(* one space are stored as one segment [space, lo, hi].                    *)

RootKey(id, len) == [root |-> id, len |-> len, path |-> <<>>]

\* HKDF-SHA256(salt = EPOCH_SALT, ikm, info = EPOCH_INFO_PREFIX space ":" epoch).
\* The info string determines (space, epoch): the epoch is the decimal number
\* after the last colon.  Ideal: injective in (ikm, space, epoch), 32 bytes out.
hkdf_derive(ikm, space, epoch) ==
  LET n == Len(ikm.path) IN
  IF n > 0 /\ ikm.path[n].space = space /\ ikm.path[n].hi + 1 = epoch
  THEN [root |-> ikm.root, len |-> AES_KEY_LENGTH,
        path |-> [ikm.path EXCEPT ![n].hi = epoch]]
  ELSE [root |-> ikm.root, len |-> AES_KEY_LENGTH,
        path |-> Append(ikm.path, [space |-> space, lo |-> epoch, hi |-> epoch])]

derive_next_epoch_key(current_key, space_id, next_epoch) ==
  IF current_key.len # AES_KEY_LENGTH THEN Err("InvalidKeyLength")
  ELSE IF next_epoch < 1 THEN Err("InvalidEpoch")
  ELSE Ok(hkdf_derive(current_key, space_id, next_epoch))

\* The loop of derive_forward, `for epoch in lo..=hi`: current becomes the key
\* derived from it for each epoch in ascending order, and the loop is left at the
\* first failure.  The range is split in halves so that the evaluation depth stays
\* logarithmic in its length.
RECURSIVE RatchetEpochs(_, _, _, _)
RatchetEpochs(current, space_id, lo, hi) ==
  IF lo > hi THEN Ok(current)
  ELSE IF lo = hi THEN derive_next_epoch_key(current, space_id, lo)
  ELSE LET mid == (lo + hi) \div 2
           After(left) ==
             IF left.ok THEN RatchetEpochs(left.val, space_id, mid + 1, hi) ELSE left
       IN After(RatchetEpochs(current, space_id, lo, mid))

\* The loop of derive_epoch_key_from_root, `for epoch in 1..=target_epoch`.
RECURSIVE DeriveFromRootUpTo(_, _, _)
DeriveFromRootUpTo(root_key, space_id, epoch) ==
  IF epoch = 0 THEN Ok(root_key)
  ELSE LET Next_(key) ==
             IF ~key.ok THEN key ELSE derive_next_epoch_key(key.val, space_id, epoch)
       IN Next_(DeriveFromRootUpTo(root_key, space_id, epoch - 1))

derive_epoch_key_from_root(root_key, space_id, target_epoch) ==
  IF root_key.len # AES_KEY_LENGTH THEN Err("InvalidKeyLength")
  ELSE IF target_epoch = 0 THEN Ok(root_key)
  ELSE DeriveFromRootUpTo(root_key, space_id, target_epoch)

\* less-sync-core derive_forward
derive_forward(key, space_id, from_epoch, to_epoch) ==
  IF to_epoch < from_epoch THEN Err("BackwardDerivation")
  ELSE IF to_epoch = from_epoch THEN Ok(key)
  ELSE RatchetEpochs(key, space_id, from_epoch + 1, to_epoch)

-----------------------------------------------------------------------------
(* EpochKeyCache *)

\* EpochKeyCache::new
NewCache(base_key, base_epoch, space_id) ==
  [base_key |-> base_key, base_epoch |-> base_epoch, current_epoch |-> base_epoch,
   space_id |-> space_id, cache |-> [e \in {} |-> base_key]]

\* update_encryption_epoch with the comparison dropped: the epoch is always taken.
update_encryption_epoch_regress(c, epoch) == [c EXCEPT !.current_epoch = epoch]

update_encryption_epoch(c, epoch) ==
  IF epoch > c.current_epoch THEN [c EXCEPT !.current_epoch = epoch] ELSE c

\* The loop of get_kek, `for e in lo..=hi`: the key becomes the cached key for e
\* when there is one, else the key derived from the previous one.  `known` is the
\* set of epochs cached when the loop starts (epochs inserted by the loop are
\* below every epoch it still visits).  Gives the keys of the epochs visited, in
\* order, up to the first failure.  The range is split in halves so that the
\* evaluation depth stays logarithmic in its length.
RECURSIVE WalkEpochs(_, _, _, _, _)
WalkEpochs(c, known, key, lo, hi) ==
  IF lo > hi THEN [ok |-> TRUE, err |-> "none", key |-> key, keys |-> <<>>]
  ELSE IF lo = hi THEN
    IF lo \in known
    THEN [ok |-> TRUE, err |-> "none", key |-> c.cache[lo], keys |-> <<c.cache[lo]>>]
    ELSE LET Derived(r) ==
               IF r.ok
               THEN [ok |-> TRUE, err |-> "none", key |-> r.val, keys |-> <<r.val>>]
               ELSE [ok |-> FALSE, err |-> r.err, key |-> key, keys |-> <<>>]
         IN Derived(derive_next_epoch_key(key, c.space_id, lo))
  ELSE LET mid == (lo + hi) \div 2
           Both(left, right) ==
             [ok |-> right.ok, err |-> right.err, key |-> right.key,
              keys |-> left.keys \o right.keys]
           After(left) ==
             IF ~left.ok THEN left
             ELSE Both(left, WalkEpochs(c, known, left.key, mid + 1, hi))
       IN After(WalkEpochs(c, known, key, lo, mid))

\* The walk replaced by a single derivation from the base key for the epoch asked.
derive_and_memoize_in_one_step(c, epoch) ==
  IF epoch \in DOMAIN c.cache THEN [res |-> Ok(c.cache[epoch]), cache |-> c]
  ELSE LET Derived(r) ==
             IF ~r.ok THEN [res |-> Err(r.err), cache |-> c]
             ELSE [res |-> Ok(r.val),
                   cache |-> [c EXCEPT !.cache =
                                [e \in DOMAIN c.cache \cup {epoch} |->
                                   IF e = epoch THEN r.val ELSE c.cache[e]]]]
       IN Derived(derive_next_epoch_key(c.base_key, c.space_id, epoch))

\* The walk with only the key of the epoch asked for inserted.
derive_and_memoize_asked_only(c, epoch) ==
  IF epoch \in DOMAIN c.cache THEN [res |-> Ok(c.cache[epoch]), cache |-> c]
  ELSE LET Walked(out) ==
             IF ~out.ok THEN [res |-> Err(out.err), cache |-> c]
             ELSE [res |-> Ok(out.key),
                   cache |-> [c EXCEPT !.cache =
                                [e \in DOMAIN c.cache \cup {epoch} |->
                                   IF e = epoch THEN out.key ELSE c.cache[e]]]]
       IN Walked(WalkEpochs(c, DOMAIN c.cache, c.base_key, c.base_epoch + 1, epoch))

\* get_kek, lines 96-112: the cache lookup and the forward walk from the base key,
\* which inserts the key of every epoch visited that was not cached.
derive_and_memoize(c, epoch) ==
  IF epoch \in DOMAIN c.cache THEN [res |-> Ok(c.cache[epoch]), cache |-> c]
  ELSE LET known == DOMAIN c.cache
           first == c.base_epoch + 1
           Inserted(keys) ==
             [e \in known \cup (first .. (first + Len(keys) - 1)) |->
                IF e \in known THEN c.cache[e] ELSE keys[e - first + 1]]
           Returned(out, cache) ==
             [res |-> IF out.ok THEN Ok(cache[epoch]) ELSE Err(out.err),
              cache |-> [c EXCEPT !.cache = cache]]
           Walked(out) == Returned(out, Inserted(out.keys))
       IN Walked(WalkEpochs(c, known, c.base_key, first, epoch))

\* get_kek with the look-ahead cap measured from current_epoch instead of base_epoch.
get_kek_cap_from_current(c, epoch) ==
  IF epoch = c.base_epoch THEN [res |-> Ok(c.base_key), cache |-> c]
  ELSE IF epoch < c.base_epoch THEN [res |-> Err("BackwardDerivation"), cache |-> c]
  ELSE IF epoch - c.current_epoch > MAX_EPOCH_ADVANCE
       THEN [res |-> Err("EpochTooFarAhead"), cache |-> c]
  ELSE derive_and_memoize(c, epoch)

\* get_kek that makes the derived key the cache's new base.
get_kek_moving_base(c, epoch) ==
  IF epoch = c.base_epoch THEN [res |-> Ok(c.base_key), cache |-> c]
  ELSE IF epoch < c.base_epoch THEN [res |-> Err("BackwardDerivation"), cache |-> c]
  ELSE IF epoch - c.base_epoch > MAX_EPOCH_ADVANCE
       THEN [res |-> Err("EpochTooFarAhead"), cache |-> c]
  ELSE LET Moved(r) ==
             IF ~r.res.ok THEN r
             ELSE [res |-> r.res,
                   cache |-> [r.cache EXCEPT !.base_key = r.res.val, !.base_epoch = epoch]]
       IN Moved(derive_and_memoize(c, epoch))

\* EpochKeyCache::get_kek: the result and the cache after the call.
get_kek(c, epoch) ==
  IF epoch = c.base_epoch THEN [res |-> Ok(c.base_key), cache |-> c]
  ELSE IF epoch < c.base_epoch THEN [res |-> Err("BackwardDerivation"), cache |-> c]
  ELSE IF epoch - c.base_epoch > MAX_EPOCH_ADVANCE
       THEN [res |-> Err("EpochTooFarAhead"), cache |-> c]
  ELSE derive_and_memoize(c, epoch)

-----------------------------------------------------------------------------
(* Bytes *)

Pow2(n) == 2 ^ n

\* u32::to_be_bytes / from_be_bytes, to_le_bytes / from_le_bytes (values below 2^31).
to_be_bytes(n) ==
  << (n \div 16777216) % 256, (n \div 65536) % 256, (n \div 256) % 256, n % 256 >>
from_be_bytes(b) == ((b[1] * 256 + b[2]) * 256 + b[3]) * 256 + b[4]
to_le_bytes(n) ==
  << n % 256, (n \div 256) % 256, (n \div 65536) % 256, (n \div 16777216) % 256 >>
from_le_bytes(b) == ((b[4] * 256 + b[3]) * 256 + b[2]) * 256 + b[1]

Zeros(n) == [i \in 1..n |-> 0]

\* One bit of one byte inverted; bit 0 is the most significant bit.
FlipBitOfByte(byte, bit) ==
  LET w == Pow2(7 - bit) IN
  IF (byte \div w) % 2 = 1 THEN byte - w ELSE byte + w

None == [some |-> FALSE, val |-> <<>>]
Some(x) == [some |-> TRUE, val |-> x]

-----------------------------------------------------------------------------
(* AES-256-GCM, v4 wire format *)

Context(space_id, record_id) == [space_id |-> space_id, record_id |-> record_id]

\* build_aad with the length prefix left out: space and record bytes concatenated.
build_aad_no_length(context) == context.space_id \o context.record_id

build_aad(context) ==
  to_be_bytes(Len(context.space_id)) \o context.space_id \o context.record_id

\* The AAD the cipher is called with: `Some(ctx)` gives build_aad(ctx), `None` gives
\* the cipher's default, the empty string.
AadOf(context) == IF context.some THEN build_aad(context.val) ELSE <<>>

\* Aes256Gcm::encrypt, ideal: the ciphertext-and-tag is a term over its inputs.
gcm_seal(key, iv, aad, msg) ==
  [key |-> key, iv |-> iv, aad |-> aad, msg |-> msg, intact |-> TRUE]

\* A cipher that does not authenticate the AAD.
gcm_open_any_aad(key, iv, aad, ct) ==
  IF ct.intact /\ ct.key = key /\ ct.iv = iv THEN Ok(ct.msg) ELSE Err("DecryptionFailed")

\* Aes256Gcm::decrypt, ideal: opens only an unmodified term under the same key,
\* nonce and AAD.
gcm_open(key, iv, aad, ct) ==
  IF ct.intact /\ ct.key = key /\ ct.iv = iv /\ ct.aad = aad
  THEN Ok(ct.msg) ELSE Err("DecryptionFailed")

\* A v4 blob: [version:1][IV:12][ciphertext+tag]
BlobLen(blob) == 1 + AES_GCM_IV_LENGTH + blob.ctlen

\* encrypt_v4; iv is the value generate_iv() returned.
encrypt_v4(data, dek, context, iv) ==
  IF dek.len # AES_KEY_LENGTH THEN Err("InvalidKeyLength")
  ELSE Ok([version |-> CURRENT_VERSION, iv |-> iv,
           ct |-> gcm_seal(dek, iv, AadOf(context), data),
           ctlen |-> Len(data) + AES_GCM_TAG_LENGTH])

decrypt_v4(blob, dek, context) ==
  IF dek.len # AES_KEY_LENGTH THEN Err("InvalidKeyLength")
  ELSE IF BlobLen(blob) < 1 + AES_GCM_IV_LENGTH + AES_GCM_TAG_LENGTH THEN Err("DataTooShort")
  ELSE IF blob.version \notin SUPPORTED_VERSIONS THEN Err("ExpectedV4")
  ELSE gcm_open(dek, blob.iv, AadOf(context), blob.ct)

-----------------------------------------------------------------------------
(* DEK wrap / unwrap.  A wrapped-DEK byte string is its first (up to 4) bytes, *)
(* written out, followed by `kwlen` bytes standing for the AES-KW output.       *)

WrappedLen(w) == Len(w.pre) + w.kwlen

\* aes_kw Kek::wrap, ideal: a term over the KEK and the wrapped key; `flips` is the
\* set of bit positions of the 40 output bytes that were inverted since.
kw_wrap(kek, dek) == [kek |-> kek, dek |-> dek, flips |-> {}]

\* aes_kw Kek::unwrap, ideal: the integrity check passes only for the unmodified
\* output of a wrap under the same KEK.
kw_unwrap(kek, kw) ==
  IF kw.kek = kek /\ kw.flips = {} THEN Ok(kw.dek) ELSE Err("UnwrapFailed")

\* wrap_dek that writes the epoch prefix little-endian.
wrap_dek_le(dek, kek, epoch) ==
  IF dek.len # AES_KEY_LENGTH THEN Err("InvalidDekLength")
  ELSE IF kek.len # AES_KEY_LENGTH THEN Err("InvalidKeyLength")
  ELSE Ok([pre |-> to_le_bytes(epoch), kw |-> kw_wrap(kek, dek),
           kwlen |-> AES_KW_OUTPUT_SIZE])

wrap_dek(dek, kek, epoch) ==
  IF dek.len # AES_KEY_LENGTH THEN Err("InvalidDekLength")
  ELSE IF kek.len # AES_KEY_LENGTH THEN Err("InvalidKeyLength")
  ELSE Ok([pre |-> to_be_bytes(epoch), kw |-> kw_wrap(kek, dek),
           kwlen |-> AES_KW_OUTPUT_SIZE])

\* unwrap_dek that skips the AES-KW integrity check.
unwrap_dek_unchecked(wrapped_dek, kek) ==
  IF WrappedLen(wrapped_dek) # WRAPPED_DEK_SIZE THEN Err("InvalidWrappedDekLength")
  ELSE IF kek.len # AES_KEY_LENGTH THEN Err("InvalidKeyLength")
  ELSE Ok([dek |-> wrapped_dek.kw.dek, epoch |-> from_be_bytes(wrapped_dek.pre)])

unwrap_dek(wrapped_dek, kek) ==
  IF WrappedLen(wrapped_dek) # WRAPPED_DEK_SIZE THEN Err("InvalidWrappedDekLength")
  ELSE IF kek.len # AES_KEY_LENGTH THEN Err("InvalidKeyLength")
  ELSE LET epoch == from_be_bytes(wrapped_dek.pre)
           Unwrapped(r) == IF r.ok THEN Ok([dek |-> r.val, epoch |-> epoch]) ELSE Err(r.err)
       IN Unwrapped(kw_unwrap(kek, wrapped_dek.kw))

\* peek_epoch that reads the prefix little-endian.
peek_epoch_little_endian(wrapped_dek) ==
  IF WrappedLen(wrapped_dek) < 4 THEN Err("MissingDek")
  ELSE Ok(from_le_bytes(wrapped_dek.pre))

\* reencrypt::peek_epoch
peek_epoch(wrapped_dek) ==
  IF WrappedLen(wrapped_dek) < 4 THEN Err("MissingDek")
  ELSE Ok(from_be_bytes(wrapped_dek.pre))

-----------------------------------------------------------------------------
(* Padding *)

DEFAULT_PADDING_BUCKETS == <<256, 1024, 4096, 16384, 65536, 262144, 1048576>>

\* pad_to_bucket that writes the length prefix big-endian.
pad_to_bucket_be_prefix(data, buckets) ==
  IF buckets = <<>> THEN Ok(data)
  ELSE LET total_needed == LENGTH_PREFIX_SIZE + Len(data)
           fitting == {i \in 1..Len(buckets) : buckets[i] >= total_needed}
       IN IF fitting = {} THEN Err("PaddingError")
          ELSE LET first == CHOOSE i \in fitting : \A j \in fitting : i <= j
                   bucket_size == buckets[first]
               IN Ok(to_be_bytes(Len(data)) \o data \o Zeros(bucket_size - total_needed))

\* pad_to_bucket that takes the first bucket strictly larger than the total.
pad_to_bucket_larger_only(data, buckets) ==
  IF buckets = <<>> THEN Ok(data)
  ELSE LET total_needed == LENGTH_PREFIX_SIZE + Len(data)
           fitting == {i \in 1..Len(buckets) : buckets[i] > total_needed}
       IN IF fitting = {} THEN Err("PaddingError")
          ELSE LET first == CHOOSE i \in fitting : \A j \in fitting : i <= j
                   bucket_size == buckets[first]
               IN Ok(to_le_bytes(Len(data)) \o data \o Zeros(bucket_size - total_needed))

pad_to_bucket(data, buckets) ==
  IF buckets = <<>> THEN Ok(data)
  ELSE LET total_needed == LENGTH_PREFIX_SIZE + Len(data)
           fitting == {i \in 1..Len(buckets) : buckets[i] >= total_needed}
       IN IF fitting = {} THEN Err("PaddingError")
          ELSE LET first == CHOOSE i \in fitting : \A j \in fitting : i <= j
                   bucket_size == buckets[first]
               IN Ok(to_le_bytes(Len(data)) \o data \o Zeros(bucket_size - total_needed))

\* unpad that refuses a claimed length equal to the bytes available.
unpad_refusing_exact(data, buckets) ==
  IF buckets = <<>> THEN Ok(data)
  ELSE IF Len(data) < LENGTH_PREFIX_SIZE THEN Err("PaddingError")
  ELSE LET original_length == from_le_bytes(SubSeq(data, 1, 4)) IN
       IF original_length >= Len(data) - LENGTH_PREFIX_SIZE THEN Err("PaddingError")
       ELSE Ok(SubSeq(data, LENGTH_PREFIX_SIZE + 1, LENGTH_PREFIX_SIZE + original_length))

unpad(data, buckets) ==
  IF buckets = <<>> THEN Ok(data)
  ELSE IF Len(data) < LENGTH_PREFIX_SIZE THEN Err("PaddingError")
  ELSE LET original_length == from_le_bytes(SubSeq(data, 1, 4)) IN
       IF original_length > Len(data) - LENGTH_PREFIX_SIZE THEN Err("PaddingError")
       ELSE Ok(SubSeq(data, LENGTH_PREFIX_SIZE + 1, LENGTH_PREFIX_SIZE + original_length))

-----------------------------------------------------------------------------
(* BlobEnvelope and its CBOR encoding.  The struct is written as a map of    *)
(* text keys: "c" text, "v" unsigned, "crdt" byte string, and "h" text only  *)
(* when it is Some.                                                          *)

Envelope(c, v, crdt, h) == [c |-> c, v |-> v, crdt |-> crdt, h |-> h]

KEY_C == <<99>>
KEY_V == <<118>>
KEY_CRDT == <<99, 114, 100, 116>>
KEY_H == <<104>>

\* Initial byte and argument of a CBOR item (arguments below 2^31).
CborHead(major, n) ==
  IF n < 24 THEN <<major * 32 + n>>
  ELSE IF n < 256 THEN <<major * 32 + 24, n>>
  ELSE IF n < 65536 THEN <<major * 32 + 25, n \div 256, n % 256>>
  ELSE <<major * 32 + 26>> \o to_be_bytes(n)

CborUint(n) == CborHead(0, n)
CborBytes(b) == CborHead(2, Len(b)) \o b
CborText(t) == CborHead(3, Len(t)) \o t

\* encode_envelope that leaves the edit chain out even when it is present.
encode_envelope_without_h(envelope) ==
  Ok(CborHead(5, 3)
     \o CborText(KEY_C) \o CborText(envelope.c)
     \o CborText(KEY_V) \o CborUint(envelope.v)
     \o CborText(KEY_CRDT) \o CborBytes(envelope.crdt))

encode_envelope(envelope) ==
  Ok(CborHead(5, IF envelope.h.some THEN 4 ELSE 3)
     \o CborText(KEY_C) \o CborText(envelope.c)
     \o CborText(KEY_V) \o CborUint(envelope.v)
     \o CborText(KEY_CRDT) \o CborBytes(envelope.crdt)
     \o (IF envelope.h.some THEN CborText(KEY_H) \o CborText(envelope.h.val) ELSE <<>>))

Bad == [ok |-> FALSE]

\* Reads the head of the item at pos: its major type, argument and the position
\* after the head.
ReadHead(b, pos) ==
  IF pos > Len(b) THEN Bad
  ELSE LET major == b[pos] \div 32
           info == b[pos] % 32
       IN IF info < 24 THEN [ok |-> TRUE, major |-> major, arg |-> info, next |-> pos + 1]
          ELSE IF info = 24 /\ pos + 1 <= Len(b)
               THEN [ok |-> TRUE, major |-> major, arg |-> b[pos + 1], next |-> pos + 2]
          ELSE IF info = 25 /\ pos + 2 <= Len(b)
               THEN [ok |-> TRUE, major |-> major,
                     arg |-> b[pos + 1] * 256 + b[pos + 2], next |-> pos + 3]
          ELSE IF info = 26 /\ pos + 4 <= Len(b) /\ b[pos + 1] < 128
               THEN [ok |-> TRUE, major |-> major,
                     arg |-> from_be_bytes(SubSeq(b, pos + 1, pos + 4)), next |-> pos + 5]
          ELSE Bad

\* Reads a definite-length string item of the given major type (2 bytes, 3 text).
ReadString(b, pos, major) ==
  LET Item(h) ==
        IF ~h.ok THEN Bad
        ELSE IF h.major # major \/ h.next + h.arg - 1 > Len(b) THEN Bad
        ELSE [ok |-> TRUE, val |-> SubSeq(b, h.next, h.next + h.arg - 1),
              next |-> h.next + h.arg]
  IN Item(ReadHead(b, pos))

ReadUint(b, pos) ==
  LET Item(h) ==
        IF ~h.ok THEN Bad
        ELSE IF h.major # 0 THEN Bad
        ELSE [ok |-> TRUE, val |-> h.arg, next |-> h.next]
  IN Item(ReadHead(b, pos))

\* Option<String>: null (0xf6) is None, a text item is Some.
ReadOptText(b, pos) ==
  IF pos <= Len(b) /\ b[pos] = 246 THEN [ok |-> TRUE, val |-> None, next |-> pos + 1]
  ELSE LET Item(t) ==
             IF t.ok THEN [ok |-> TRUE, val |-> Some(t.val), next |-> t.next] ELSE Bad
       IN Item(ReadString(b, pos, 3))

\* The value of the field named by key, read at pos.
ReadValue(b, pos, key) ==
  IF key = KEY_C THEN ReadString(b, pos, 3)
  ELSE IF key = KEY_V THEN ReadUint(b, pos)
  ELSE IF key = KEY_CRDT THEN ReadString(b, pos, 2)
  ELSE IF key = KEY_H THEN ReadOptText(b, pos)
  ELSE Bad

FieldSeen(acc, key) ==
  IF key = KEY_C THEN acc.c.some
  ELSE IF key = KEY_V THEN acc.v.some
  ELSE IF key = KEY_CRDT THEN acc.crdt.some
  ELSE acc.h.some

SetField(acc, key, x) ==
  IF key = KEY_C THEN [acc EXCEPT !.c = Some(x)]
  ELSE IF key = KEY_V THEN [acc EXCEPT !.v = Some(x)]
  ELSE IF key = KEY_CRDT THEN [acc EXCEPT !.crdt = Some(x)]
  ELSE [acc EXCEPT !.h = Some(x)]

\* The derived visitor: reads n key/value pairs, storing each known field once
\* (a repeated field is an error).  A key that is not a field of the struct is
\* reported as a failure here (the encoder never writes one).
RECURSIVE ReadFields(_, _, _, _)
ReadFields(b, pos, n, acc) ==
  IF n = 0 THEN [ok |-> TRUE, acc |-> acc]
  ELSE LET WithValue(key, x) ==
             IF ~x.ok THEN Bad
             ELSE IF FieldSeen(acc, key) THEN Bad
             ELSE ReadFields(b, x.next, n - 1, SetField(acc, key, x.val))
           WithKey(k) ==
             IF ~k.ok THEN Bad ELSE WithValue(k.val, ReadValue(b, k.next, k.val))
       IN WithKey(ReadString(b, pos, 3))

decode_envelope(data) ==
  LET WithFields(f) ==
        IF ~f.ok THEN Err("CborDecode")
        ELSE IF ~(f.acc.c.some /\ f.acc.v.some /\ f.acc.crdt.some) THEN Err("CborDecode")
        ELSE Ok(Envelope(f.acc.c.val, f.acc.v.val, f.acc.crdt.val,
                         IF f.acc.h.some THEN f.acc.h.val ELSE None))
      WithMap(m) ==
        IF ~m.ok THEN Err("CborDecode")
        ELSE IF m.major # 5 THEN Err("CborDecode")
        ELSE WithFields(ReadFields(data, m.next, m.arg,
                                   [c |-> None, v |-> None, crdt |-> None, h |-> None]))
  IN WithMap(ReadHead(data, 1))

-----------------------------------------------------------------------------
(* Transport pipeline *)

\* encrypt_outbound that wraps for the cache's base epoch.
encrypt_outbound_at_base_epoch(envelope, record_id, c, padding_buckets, dek, iv) ==
  LET context == Some(Context(c.space_id, record_id))
      epoch == c.base_epoch
      WithWrapped(blob, wrapped_dek) ==
        IF ~wrapped_dek.ok THEN Err(wrapped_dek.err)
        ELSE Ok([blob |-> blob, wrapped_dek |-> wrapped_dek.val])
      WithBlob(blob, kek) ==
        IF ~blob.ok THEN Err(blob.err)
        ELSE WithWrapped(blob.val, wrap_dek(dek, kek, epoch))
      WithKek(padded, kek) ==
        [res |-> IF ~kek.res.ok THEN Err(kek.res.err)
                 ELSE WithBlob(encrypt_v4(padded, dek, context, iv), kek.res.val),
         cache |-> kek.cache]
      WithPadded(padded) ==
        IF ~padded.ok THEN [res |-> Err(padded.err), cache |-> c]
        ELSE WithKek(padded.val, get_kek(c, epoch))
      WithCbor(cbor) ==
        IF ~cbor.ok THEN [res |-> Err(cbor.err), cache |-> c]
        ELSE WithPadded(pad_to_bucket(cbor.val, padding_buckets))
  IN WithCbor(encode_envelope(envelope))

\* encrypt_outbound; dek and iv are the values generate_dek() and generate_iv()
\* returned.  Gives the result and the cache after the call.  Each `let x = f()?`
\* of the function is a step that takes x and either returns the error or goes on.
encrypt_outbound(envelope, record_id, c, padding_buckets, dek, iv) ==
  LET context == Some(Context(c.space_id, record_id))
      epoch == c.current_epoch
      WithWrapped(blob, wrapped_dek) ==
        IF ~wrapped_dek.ok THEN Err(wrapped_dek.err)
        ELSE Ok([blob |-> blob, wrapped_dek |-> wrapped_dek.val])
      WithBlob(blob, kek) ==
        IF ~blob.ok THEN Err(blob.err)
        ELSE WithWrapped(blob.val, wrap_dek(dek, kek, epoch))
      WithKek(padded, kek) ==
        [res |-> IF ~kek.res.ok THEN Err(kek.res.err)
                 ELSE WithBlob(encrypt_v4(padded, dek, context, iv), kek.res.val),
         cache |-> kek.cache]
      WithPadded(padded) ==
        IF ~padded.ok THEN [res |-> Err(padded.err), cache |-> c]
        ELSE WithKek(padded.val, get_kek(c, epoch))
      WithCbor(cbor) ==
        IF ~cbor.ok THEN [res |-> Err(cbor.err), cache |-> c]
        ELSE WithPadded(pad_to_bucket(cbor.val, padding_buckets))
  IN WithCbor(encode_envelope(envelope))

\* decrypt_inbound.  Gives the result and the cache after the call.
decrypt_inbound(blob, wrapped_dek, record_id, c, padding_buckets) ==
  LET context == Some(Context(c.space_id, record_id))
      WithUnpadded(unpadded) ==
        IF ~unpadded.ok THEN Err(unpadded.err) ELSE decode_envelope(unpadded.val)
      WithDecrypted(decrypted) ==
        IF ~decrypted.ok THEN Err(decrypted.err)
        ELSE WithUnpadded(unpad(decrypted.val, padding_buckets))
      WithDek(unwrapped) ==
        IF ~unwrapped.ok THEN Err(unwrapped.err)
        ELSE WithDecrypted(decrypt_v4(blob, unwrapped.val.dek, context))
      WithKek(kek) ==
        [res |-> IF ~kek.res.ok THEN Err(kek.res.err)
                 ELSE WithDek(unwrap_dek(wrapped_dek, kek.res.val)),
         cache |-> kek.cache]
      WithEpoch(dek_epoch) ==
        IF ~dek_epoch.ok THEN [res |-> Err(dek_epoch.err), cache |-> c]
        ELSE WithKek(get_kek(c, dek_epoch.val))
  IN WithEpoch(peek_epoch(wrapped_dek))

-----------------------------------------------------------------------------
(* Inputs *)

BaseEpoch == 2

SPACE_A == <<115>>
SPACE_B == <<115, 49>>
RECORD_1 == <<114>>
RECORD_2 == <<49, 114>>

\* Epochs offered to the caches: behind the base, the base, just ahead, exactly
\* MAX_EPOCH_ADVANCE ahead, and one past that.
Epochs ==
  {BaseEpoch - 1, BaseEpoch, BaseEpoch + 1,
   BaseEpoch + MAX_EPOCH_ADVANCE, BaseEpoch + MAX_EPOCH_ADVANCE + 1}

NearEpochs == {BaseEpoch - 1, BaseEpoch, BaseEpoch + 1}

K1 == RootKey("k1", AES_KEY_LENGTH)
K2 == RootKey("k2", AES_KEY_LENGTH)
DEK1 == RootKey("dek1", AES_KEY_LENGTH)
IV1 == "iv1"

Who == {"enc", "dec"}
CacheOf(who) == IF who = "enc" THEN enc ELSE dec

NoWire == [kind |-> "none"]

\* The scenarios of the other specifications are parked.
Parked == [on |-> FALSE]

ENVELOPE_1 == Envelope(<<116>>, 1, <<1, 2, 3>>, None)

-----------------------------------------------------------------------------
(* Actions on the two sessions *)

GetKek(who, e) ==
  /\ \E r \in {get_kek(CacheOf(who), e)} :
       /\ enc' = IF who = "enc" THEN r.cache ELSE enc
       /\ dec' = IF who = "dec" THEN r.cache ELSE dec
       /\ last' = [op |-> "get_kek", who |-> who, epoch |-> e, res |-> r.res]
  /\ UNCHANGED <<wire, dk, rw, ch, mb>>

UpdateEncryptionEpoch(who, e) ==
  /\ \E c2 \in {update_encryption_epoch(CacheOf(who), e)} :
       /\ enc' = IF who = "enc" THEN c2 ELSE enc
       /\ dec' = IF who = "dec" THEN c2 ELSE dec
       /\ last' = [op |-> "update_encryption_epoch", who |-> who, epoch |-> e]
  /\ UNCHANGED <<wire, dk, rw, ch, mb>>

DeriveForward(from_epoch, to_epoch) ==
  /\ last' = [op |-> "derive_forward", from |-> from_epoch, to |-> to_epoch,
              res |-> derive_forward(enc.base_key, enc.space_id, from_epoch, to_epoch)]
  /\ UNCHANGED <<enc, dec, wire, dk, rw, ch, mb>>

\* The writer encrypts an envelope and pushes the pair to the relay.
EncryptOutbound(envelope, record_id, padding_buckets, dek, iv) ==
  /\ \E r \in {encrypt_outbound(envelope, record_id, enc, padding_buckets, dek, iv)} :
       /\ enc' = r.cache
       /\ wire' = IF r.res.ok
                  THEN [kind |-> "pair", blob |-> r.res.val.blob,
                        wrapped_dek |-> r.res.val.wrapped_dek,
                        envelope |-> envelope, record_id |-> record_id,
                        context |-> Some(Context(enc.space_id, record_id)),
                        padding_buckets |-> padding_buckets,
                        epoch |-> enc.current_epoch, dek |-> dek]
                  ELSE wire
       /\ last' = [op |-> "encrypt_outbound", ok |-> r.res.ok, err |-> r.res.err]
  /\ UNCHANGED <<dec, dk, rw, ch, mb>>

\* A session pulls the pair and decrypts it.
DecryptInbound(who, record_id, padding_buckets) ==
  /\ wire.kind = "pair"
  /\ \E r \in {decrypt_inbound(wire.blob, wire.wrapped_dek, record_id, CacheOf(who),
                               padding_buckets)} :
       /\ enc' = IF who = "enc" THEN r.cache ELSE enc
       /\ dec' = IF who = "dec" THEN r.cache ELSE dec
       /\ last' = [op |-> "decrypt_inbound", who |-> who, record_id |-> record_id,
                   padding_buckets |-> padding_buckets, res |-> r.res]
  /\ UNCHANGED <<wire, dk, rw, ch, mb>>

------------------------------------------------------------------------\* A blob is sealed directly with encrypt_v4 under any context, or none.
EncryptV4(data, context, dek, iv) ==
  /\ \E r \in {encrypt_v4(data, dek, context, iv)} :
       /\ wire' = IF r.ok
                  THEN [kind |-> "blob", blob |-> r.val, context |-> context,
                        data |-> data, dek |-> dek]
                  ELSE wire
       /\ last' = [op |-> "encrypt_v4", ok |-> r.ok, err |-> r.err]
  /\ UNCHANGED <<enc, dec, dk, rw, ch, mb>>

\* The blob on the relay is opened directly with decrypt_v4 under its DEK.
DecryptV4(context) ==
  /\ wire.kind # "none"
  /\ last' = [op |-> "decrypt_v4", context |-> context,
              res |-> decrypt_v4(wire.blob, wire.dek, context)]
  /\ UNCHANGED <<enc, dec, wire, dk, rw, ch, mb>>

-----
(* Specification of the epoch key cache: one session that derives KEKs,    *)
(* advances its encryption epoch, encrypts, and decrypts what it pushed.    *)

Init ==
  /\ enc = NewCache(K1, BaseEpoch, SPACE_A)
  /\ wire = NoWire
  /\ last = Idle
  /\ dec = Parked /\ dk = Parked /\ rw = Parked /\ ch = Parked /\ mb = Parked

Next ==
  \/ \E e \in Epochs : GetKek("enc", e)
  \/ \E e \in Epochs : UpdateEncryptionEpoch("enc", e)
  \/ \E f \in NearEpochs, t \in NearEpochs : DeriveForward(f, t)
  \/ EncryptOutbound(ENVELOPE_1, RECORD_1, DEFAULT_PADDING_BUCKETS, DEK1, IV1)
  \/ DecryptInbound("enc", RECORD_1, DEFAULT_PADDING_BUCKETS)

Spec == Init /\ [][Next]_vars

-----------------------------------------------------------------------------
(* Properties of the epoch key cache *)

IsErr(r, e) == ~r.ok /\ r.err = e

\* C1: in every reachable state of a cache with base epoch b, get_kek(e) fails
\* with BackwardDerivation for every e < b and with EpochTooFarAhead for every e
\* with e - b > MAX_EPOCH_ADVANCE, whatever was derived, memoized or advanced
\* before; and derive_forward fails with BackwardDerivation when to < from.
C1_BackwardAndFarEpochsRejected ==
  /\ \A e \in Epochs :
       /\ e < enc.base_epoch => IsErr(get_kek(enc, e).res, "BackwardDerivation")
       /\ e - enc.base_epoch > MAX_EPOCH_ADVANCE
            => IsErr(get_kek(enc, e).res, "EpochTooFarAhead")
  /\ last.op = "get_kek" =>
       /\ last.epoch < enc.base_epoch => IsErr(last.res, "BackwardDerivation")
       /\ last.epoch - enc.base_epoch > MAX_EPOCH_ADVANCE
            => IsErr(last.res, "EpochTooFarAhead")
  /\ last.op = "derive_forward" /\ last.to < last.from
       => IsErr(last.res, "BackwardDerivation")

\* C1 witness: the cache has advanced its encryption epoch and memoized keys, and
\* a get_kek call beyond the look-ahead cap has just been refused.
C1_Witness ==
  /\ last.op = "get_kek"
  /\ last.epoch - enc.base_epoch > MAX_EPOCH_ADVANCE
  /\ IsErr(last.res, "EpochTooFarAhead")
  /\ enc.current_epoch > enc.base_epoch
  /\ DOMAIN enc.cache # {}

\* C2: current_epoch never decreases over any sequence of operations, and
\* update_encryption_epoch(e) sets it to e exactly when e is strictly greater than
\* the current value and leaves it alone otherwise.
C2_CurrentEpochMonotone ==
  [][ /\ enc'.current_epoch >= enc.current_epoch
      /\ last'.op = "update_encryption_epoch" =>
           enc'.current_epoch =
             IF last'.epoch > enc.current_epoch THEN last'.epoch ELSE enc.current_epoch
    ]_vars

\* C2 witness: an epoch below the current one was offered and not taken.
C2_Witness ==
  /\ last.op = "update_encryption_epoch"
  /\ last.epoch < enc.current_epoch
  /\ enc.current_epoch > enc.base_epoch

-----------------------------------------------------------------------------
(* Specification of the transport pipeline: a writer and a reader session,  *)
(* envelopes of every shape, two record ids, several bucket lists, and      *)
(* blobs sealed directly with encrypt_v4.                                    *)

\* The space's key chain: K1 is the key of epoch BaseEpoch.
ChainKey(e) == derive_forward(K1, SPACE_A, BaseEpoch, e).val

BaseEpochs == {BaseEpoch, BaseEpoch + 1}
PipeEpochs == {BaseEpoch + 1, BaseEpoch + 2}

\* Readers: on the writer's chain (built at either base epoch), built from the
\* writer's key bytes under a later epoch number, from another key, or for
\* another space.
Readers(w) ==
  {NewCache(ChainKey(e), e, SPACE_A) : e \in BaseEpochs}
    \cup {NewCache(w.base_key, w.base_epoch + 1, SPACE_A),
          NewCache(K2, w.base_epoch, SPACE_A),
          NewCache(w.base_key, w.base_epoch, SPACE_B)}

Envelopes ==
  {Envelope(<<116>>, 1, <<1, 2, 3>>, None),
   Envelope(<<>>, 0, <<>>, None),
   Envelope(<<116>>, 24, <<255>>, Some(<<>>)),
   Envelope(<<116, 50>>, 65536, <<0>>, Some(<<91, 93>>))}

RecordIds == {RECORD_1, RECORD_2}
SpaceIds == {SPACE_A, SPACE_B}

BucketLists == {<<>>, <<16>>, <<24, 64>>, DEFAULT_PADDING_BUCKETS}

Contexts == {Context(sp, rid) : sp \in SpaceIds, rid \in RecordIds}
OptContexts == {None} \cup {Some(ctx) : ctx \in Contexts}

DATA_1 == <<1, 2>>

InitPipe ==
  /\ enc \in {NewCache(ChainKey(e), e, SPACE_A) : e \in BaseEpochs}
  /\ dec \in Readers(enc)
  /\ wire = NoWire
  /\ last = Idle
  /\ dk = Parked /\ rw = Parked /\ ch = Parked /\ mb = Parked

NextPipe ==
  \/ \E e \in PipeEpochs : UpdateEncryptionEpoch("enc", e)
  \/ \E envelope \in Envelopes, rid \in RecordIds, buckets \in BucketLists :
       EncryptOutbound(envelope, rid, buckets, DEK1, IV1)
  \/ \E rid \in RecordIds : DecryptInbound("dec", rid, wire.padding_buckets)
  \/ \E context \in OptContexts : EncryptV4(DATA_1, context, DEK1, IV1)
  \/ \E context \in OptContexts : DecryptV4(context)

SpecPipe == InitPipe /\ [][NextPipe]_vars

-----------------------------------------------------------------------------
(* Properties of the transport pipeline *)

\* What the reader gets for the pair on the relay with the given record id and
\* the writer's bucket list.
Pulled(rid) ==
  decrypt_inbound(wire.blob, wire.wrapped_dek, rid, dec, wire.padding_buckets).res

\* The wrap epoch is one the reader may ask its cache for.
WrapEpochInReach ==
  /\ dec.base_epoch <= wire.epoch
  /\ wire.epoch <= dec.base_epoch + MAX_EPOCH_ADVANCE

\* Both caches hold keys of one chain: the base key of the later one is the base
\* key of the earlier one ratcheted forward to the later base epoch.
OnOneChain(c1, c2) ==
  /\ c1.space_id = c2.space_id
  /\ \/ /\ c1.base_epoch <= c2.base_epoch
        /\ SameResult(derive_forward(c1.base_key, c1.space_id, c1.base_epoch,
                                     c2.base_epoch), Ok(c2.base_key))
     \/ /\ c2.base_epoch <= c1.base_epoch
        /\ SameResult(derive_forward(c2.base_key, c2.space_id, c2.base_epoch,
                                     c1.base_epoch), Ok(c1.base_key))

\* C3 (amended): when the two caches are for the same space and hold keys of one
\* chain (the same base key at the same base epoch, or one base key being the
\* other ratcheted forward to the later base epoch), and the wrap epoch lies in
\* [b, b + MAX_EPOCH_ADVANCE] for the reader's base epoch b, decrypt_inbound with
\* the same record id and bucket list returns the envelope that was encrypted,
\* equal in c, v, crdt and h.
C3_RoundTripOnOneChain ==
  /\ (wire.kind = "pair" /\ OnOneChain(enc, dec) /\ WrapEpochInReach)
       => SameResult(Pulled(wire.record_id), Ok(wire.envelope))
  /\ (last.op = "decrypt_inbound" /\ last.record_id = wire.record_id
        /\ OnOneChain(enc, dec) /\ WrapEpochInReach)
       => SameResult(last.res, Ok(wire.envelope))

\* C3 witness: the writer has advanced its epoch past the reader's base epoch, an
\* envelope with an edit chain was padded into a bucket, and the reader has just
\* decrypted it to the same envelope.
C3_Witness ==
  /\ last.op = "decrypt_inbound"
  /\ last.record_id = wire.record_id
  /\ OnOneChain(enc, dec)
  /\ wire.epoch > dec.base_epoch
  /\ wire.envelope.h.some
  /\ wire.padding_buckets # <<>>
  /\ SameResult(last.res, Ok(wire.envelope))

\* C3 as stated: the two caches are built from the same base key bytes and space
\* id, whatever their base epochs, and the wrap epoch lies in the reader's reach.
C3_RoundTripSameBaseKey ==
  (wire.kind = "pair" /\ dec.base_key = enc.base_key /\ dec.space_id = enc.space_id
     /\ WrapEpochInReach)
    => SameResult(Pulled(wire.record_id), Ok(wire.envelope))

\* C4: a pair produced by encrypt_outbound for (space_id, record_id) never
\* decrypts with decrypt_inbound under a different record id or with a cache for
\* a different space, whatever keys the reader holds; decrypt_v4 fails for every
\* context other than the one encrypt_v4 was given, Some or None; and distinct
\* (space_id, record_id) pairs never give the same AAD bytes, none of which is
\* the empty AAD of an absent context.
C4_ContextBound ==
  /\ wire.kind = "pair" =>
       \A rid \in RecordIds :
         Some(Context(dec.space_id, rid)) # wire.context => ~Pulled(rid).ok
  /\ (last.op = "decrypt_inbound"
        /\ Some(Context(dec.space_id, last.record_id)) # wire.context)
       => ~last.res.ok
  /\ wire.kind # "none" =>
       \A context \in OptContexts :
         context # wire.context
           => IsErr(decrypt_v4(wire.blob, wire.dek, context), "DecryptionFailed")
  /\ (last.op = "decrypt_v4" /\ last.context # wire.context)
       => IsErr(last.res, "DecryptionFailed")
  /\ \A c1 \in Contexts, c2 \in Contexts : c1 # c2 => build_aad(c1) # build_aad(c2)
  /\ \A c1 \in Contexts : build_aad(c1) # AadOf(None)

\* C4 witness: the reader holds the right keys (it decrypts the pair under the
\* right record id) and has just been refused under another record id by the
\* AEAD check.
C4_Witness ==
  /\ last.op = "decrypt_inbound"
  /\ last.record_id # wire.record_id
  /\ Pulled(wire.record_id).ok
  /\ IsErr(last.res, "DecryptionFailed")

-----------------------------------------------------------------------------
(* Specification of DEK wrapping: a DEK is wrapped, one bit of the wrapped  *)
(* bytes may be inverted on the way, and the result is unwrapped.            *)

DEK2 == RootKey("dek2", AES_KEY_LENGTH)
SHORT_KEY == RootKey("short", 16)

Deks == {DEK1, DEK2, SHORT_KEY}
Keks == {K1, K2, SHORT_KEY}

\* 0, a value whose four bytes differ (0x01020304), and the largest value below 2^31.
DekEpochs == {0, 16909060, 2147483647}

\* Bit positions of the 44 bytes, most significant bit of byte 0 first.  Epochs
\* are kept below 2^31, so bit 0, whose inversion gives an epoch of 2^31 or more,
\* is not inverted.
FlipPositions == 1 .. (8 * WRAPPED_DEK_SIZE - 1)

\* `wrapped[pos / 8] ^= 0x80 >> (pos % 8)`
FlipBit(w, pos) ==
  IF pos < 32
  THEN [w EXCEPT !.pre[pos \div 8 + 1] = FlipBitOfByte(@, pos % 8)]
  ELSE [w EXCEPT !.kw.flips = (@ \ {pos - 32}) \cup ({pos - 32} \ @)]

NoBytes == [pre |-> <<>>, kwlen |-> 0]
NotCalled == [ok |-> FALSE, val |-> "none", err |-> "not called"]

WrapDek(dek, kek, epoch) ==
  /\ \E r \in {wrap_dek(dek, kek, epoch)} :
       dk' = [stage |-> IF r.ok THEN "wrapped" ELSE "refused",
              dek |-> dek, kek |-> kek, epoch |-> epoch, wrapped |-> r,
              w |-> IF r.ok THEN r.val ELSE NoBytes,
              flip |-> -1, ukek |-> kek, out |-> NotCalled]
  /\ UNCHANGED <<enc, dec, wire, last, rw, ch, mb>>

\* One bit of the wrapped bytes is inverted, once.
FlipOneBit(pos) ==
  /\ dk.stage = "wrapped"
  /\ dk.flip = -1
  /\ dk' = [dk EXCEPT !.w = FlipBit(@, pos), !.flip = pos]
  /\ UNCHANGED <<enc, dec, wire, last, rw, ch, mb>>

UnwrapDek(kek) ==
  /\ dk.stage = "wrapped"
  /\ dk' = [dk EXCEPT !.stage = "unwrapped", !.ukek = kek, !.out = unwrap_dek(dk.w, kek)]
  /\ UNCHANGED <<enc, dec, wire, last, rw, ch, mb>>

InitDek ==
  /\ dk = [stage |-> "start"]
  /\ enc = Parked /\ dec = Parked /\ wire = NoWire /\ last = Idle
  /\ rw = Parked /\ ch = Parked /\ mb = Parked

NextDek ==
  \/ \E dek \in Deks, kek \in Keks, epoch \in DekEpochs : WrapDek(dek, kek, epoch)
  \/ \E pos \in FlipPositions : FlipOneBit(pos)
  \/ \E kek \in Keks : UnwrapDek(kek)

SpecDek == InitDek /\ [][NextDek]_vars

-----------------------------------------------------------------------------
(* Properties of DEK wrapping *)

Wrapped == dk.stage \in {"wrapped", "unwrapped"}

\* C9: for every 32-byte DEK, 32-byte KEK and epoch, wrap_dek returns exactly
\* WRAPPED_DEK_SIZE = 44 bytes whose first 4 bytes are the epoch, most significant
\* byte first; unwrap_dek of them under the same KEK returns (dek, epoch); and
\* unwrap_dek under any other KEK fails.
C9_WrapRoundTrip ==
  /\ (dk.stage # "start" /\ dk.dek.len = AES_KEY_LENGTH /\ dk.kek.len = AES_KEY_LENGTH)
       => /\ dk.wrapped.ok
          /\ WrappedLen(dk.wrapped.val) = 44
          /\ Len(dk.wrapped.val.pre) = 4
          /\ \A i \in 1..4 : dk.wrapped.val.pre[i] \in 0..255
          /\ ((dk.wrapped.val.pre[1] * 256 + dk.wrapped.val.pre[2]) * 256
                + dk.wrapped.val.pre[3]) * 256 + dk.wrapped.val.pre[4] = dk.epoch
          /\ SameResult(unwrap_dek(dk.wrapped.val, dk.kek),
                        Ok([dek |-> dk.dek, epoch |-> dk.epoch]))
          /\ \A kek \in Keks : kek # dk.kek => ~unwrap_dek(dk.wrapped.val, kek).ok
  /\ (dk.stage = "unwrapped" /\ dk.flip = -1)
       => IF dk.ukek = dk.kek
          THEN SameResult(dk.out, Ok([dek |-> dk.dek, epoch |-> dk.epoch]))
          ELSE ~dk.out.ok

\* C9 witness: a DEK wrapped at epoch 0x01020304 has been unwrapped, untouched,
\* under the same KEK.
C9_Witness ==
  /\ dk.stage = "unwrapped"
  /\ dk.flip = -1
  /\ dk.ukek = dk.kek
  /\ dk.epoch = 16909060
  /\ dk.out.ok

\* C10 (amended): inverting any single bit of the 40-byte AES-KW ciphertext
\* (bytes 4..43, 320 positions) makes unwrap_dek under the same KEK fail with
\* UnwrapFailed; inverting a bit of the 4-byte epoch prefix does not: unwrap_dek
\* still returns the DEK, with the altered epoch.
C10_CiphertextBitFlipsFail ==
  /\ (Wrapped /\ dk.flip >= 32) => IsErr(unwrap_dek(dk.w, dk.kek), "UnwrapFailed")
  /\ (Wrapped /\ dk.flip >= 0 /\ dk.flip < 32)
       => /\ unwrap_dek(dk.w, dk.kek).ok
          /\ unwrap_dek(dk.w, dk.kek).val.dek = dk.dek
          /\ unwrap_dek(dk.w, dk.kek).val.epoch # dk.epoch
  /\ (dk.stage = "unwrapped" /\ dk.flip >= 32 /\ dk.ukek = dk.kek)
       => IsErr(dk.out, "UnwrapFailed")

\* C10 witness: the last bit of the last byte was inverted and unwrap_dek under
\* the wrapping KEK has failed.
C10_Witness ==
  /\ dk.stage = "unwrapped"
  /\ dk.flip = 8 * WRAPPED_DEK_SIZE - 1
  /\ dk.ukek = dk.kek
  /\ IsErr(dk.out, "UnwrapFailed")

\* C10 as stated: whichever bit of the 44 bytes is inverted, unwrap_dek under the
\* same KEK fails.
C10_EveryBitFlipFails ==
  (Wrapped /\ dk.flip >= 0) => ~unwrap_dek(dk.w, dk.kek).ok

-----------------------------------------------------------------------------
(* rewrap_deks.  The input and output are sequences of pairs <<id, bytes>>. *)

\* The loop body with the old epoch label kept on the re-wrapped DEK.
rewrap_one_old_label(wrapped_dek, unwrap_key, new_key, new_epoch) ==
  LET Unwrapped(u) ==
        IF ~u.ok THEN Err(u.err) ELSE wrap_dek(u.val.dek, new_key, u.val.epoch)
  IN Unwrapped(unwrap_dek(wrapped_dek, unwrap_key))

\* The loop body re-wrapping under the key the DEK was unwrapped with.
rewrap_one_under_unwrap_key(wrapped_dek, unwrap_key, new_key, new_epoch) ==
  LET Unwrapped(u) ==
        IF ~u.ok THEN Err(u.err) ELSE wrap_dek(u.val.dek, unwrap_key, new_epoch)
  IN Unwrapped(unwrap_dek(wrapped_dek, unwrap_key))

\* The loop body with dek.zeroize() moved in front of wrap_dek.
rewrap_one_zeroize_first(wrapped_dek, unwrap_key, new_key, new_epoch) ==
  LET Unwrapped(u) ==
        IF ~u.ok THEN Err(u.err)
        ELSE wrap_dek([u.val.dek EXCEPT !.root = "zeros"], new_key, new_epoch)
  IN Unwrapped(unwrap_dek(wrapped_dek, unwrap_key))

\* rewrap_deks, lines 97-98: unwrap under the chain key, wrap under the new key.
rewrap_one(wrapped_dek, unwrap_key, new_key, new_epoch) ==
  LET Unwrapped(u) ==
        IF ~u.ok THEN Err(u.err) ELSE wrap_dek(u.val.dek, new_key, new_epoch)
  IN Unwrapped(unwrap_dek(wrapped_dek, unwrap_key))

\* rewrap_deks, lines 77-83: `for e in (current_epoch + 1)..=new_epoch`, from
\* epoch e on with derived_key the key of epoch e - 1.  The range is split in
\* halves so that the evaluation depth stays logarithmic in its length.
RECURSIVE BuildKeyCache(_, _, _, _, _)
BuildKeyCache(key_cache, derived_key, e, new_epoch, space_id) ==
  IF e > new_epoch THEN Ok(key_cache)
  ELSE IF e = new_epoch THEN
    LET Derived(r) == IF ~r.ok THEN Err(r.err) ELSE Ok(key_cache @@ (e :> r.val))
    IN Derived(derive_next_epoch_key(derived_key, space_id, e))
  ELSE LET mid == (e + new_epoch) \div 2
           After(left) ==
             IF ~left.ok THEN left
             ELSE BuildKeyCache(left.val, left.val[mid], mid + 1, new_epoch, space_id)
       IN After(BuildKeyCache(key_cache, derived_key, e, mid, space_id))

\* The loop leaving out a pair that fails and going on with the next one.
RECURSIVE RewrapEach_skipping_failures(_, _, _, _, _, _)
RewrapEach_skipping_failures(wrapped_deks, i, key_cache, new_key, new_epoch, result) ==
  IF i > Len(wrapped_deks) THEN Ok(result)
  ELSE LET id == wrapped_deks[i][1]
           wrapped_dek == wrapped_deks[i][2]
           Skip == RewrapEach_skipping_failures(wrapped_deks, i + 1, key_cache, new_key,
                                                new_epoch, result)
           Rewrapped(r) ==
             IF ~r.ok THEN Skip
             ELSE RewrapEach_skipping_failures(wrapped_deks, i + 1, key_cache, new_key,
                                               new_epoch, Append(result, <<id, r.val>>))
           WithEpoch(dek_epoch) ==
             IF ~dek_epoch.ok THEN Skip
             ELSE IF dek_epoch.val = new_epoch THEN Skip
             ELSE IF dek_epoch.val \notin DOMAIN key_cache THEN Skip
             ELSE Rewrapped(rewrap_one(wrapped_dek, key_cache[dek_epoch.val], new_key,
                                       new_epoch))
       IN WithEpoch(peek_epoch(wrapped_dek))

\* rewrap_deks, lines 86-100: `for (id, wrapped_dek) in wrapped_deks`.
RECURSIVE RewrapEach(_, _, _, _, _, _)
RewrapEach(wrapped_deks, i, key_cache, new_key, new_epoch, result) ==
  IF i > Len(wrapped_deks) THEN Ok(result)
  ELSE LET id == wrapped_deks[i][1]
           wrapped_dek == wrapped_deks[i][2]
           Rewrapped(r) ==
             IF ~r.ok THEN Err(r.err)
             ELSE RewrapEach(wrapped_deks, i + 1, key_cache, new_key, new_epoch,
                             Append(result, <<id, r.val>>))
           WithEpoch(dek_epoch) ==
             IF ~dek_epoch.ok THEN Err(dek_epoch.err)
             ELSE IF dek_epoch.val = new_epoch
                  THEN RewrapEach(wrapped_deks, i + 1, key_cache, new_key, new_epoch,
                                  result)
             ELSE IF dek_epoch.val \notin DOMAIN key_cache THEN Err("NoKek")
             ELSE Rewrapped(rewrap_one(wrapped_dek, key_cache[dek_epoch.val], new_key,
                                       new_epoch))
       IN WithEpoch(peek_epoch(wrapped_dek))

\* rewrap_deks that refuses an earlier epoch only, not an equal one.
rewrap_deks_equal_allowed(wrapped_deks, current_key, current_epoch, new_key, new_epoch, space_id) ==
  IF new_epoch < current_epoch THEN Err("InvalidEpochAdvance")
  ELSE LET WithCache(key_cache) ==
             IF ~key_cache.ok THEN Err(key_cache.err)
             ELSE RewrapEach(wrapped_deks, 1, key_cache.val, new_key, new_epoch, <<>>)
       IN WithCache(BuildKeyCache((current_epoch :> current_key), current_key,
                                  current_epoch + 1, new_epoch, space_id))

rewrap_deks(wrapped_deks, current_key, current_epoch, new_key, new_epoch, space_id) ==
  IF new_epoch <= current_epoch THEN Err("InvalidEpochAdvance")
  ELSE LET WithCache(key_cache) ==
             IF ~key_cache.ok THEN Err(key_cache.err)
             ELSE RewrapEach(wrapped_deks, 1, key_cache.val, new_key, new_epoch, <<>>)
       IN WithCache(BuildKeyCache((current_epoch :> current_key), current_key,
                                  current_epoch + 1, new_epoch, space_id))

\* The heap buffers into which rewrap_deks wrote the chain keys it derived, as
\* they are when it returns: for every epoch e in current_epoch+1..=new_epoch
\* the Vec assigned to derived_key (dropped as it is when derived_key is
\* assigned again, zeroized after the loop when e = new_epoch) and its clone in
\* key_cache (zeroized by the loop that follows the re-wrapping, which a return
\* by `?` does not reach).
rewrap_deks_buffers(wrapped_deks, current_key, current_epoch, new_key, new_epoch, space_id) ==
  IF new_epoch <= current_epoch THEN <<>>
  ELSE LET WithCache(key_cache) ==
             IF ~key_cache.ok THEN <<>>
             ELSE LET Returned(res) ==
                        [i \in 1 .. (new_epoch - current_epoch) |->
                           [owner |-> "derived_key", epoch |-> current_epoch + i,
                            key |-> key_cache.val[current_epoch + i],
                            zeroed |-> current_epoch + i = new_epoch]]
                        \o [i \in 1 .. (new_epoch - current_epoch) |->
                              [owner |-> "key_cache", epoch |-> current_epoch + i,
                               key |-> key_cache.val[current_epoch + i],
                               zeroed |-> res.ok]]
                  IN Returned(RewrapEach(wrapped_deks, 1, key_cache.val, new_key,
                                         new_epoch, <<>>))
       IN WithCache(BuildKeyCache((current_epoch :> current_key), current_key,
                                  current_epoch + 1, new_epoch, space_id))

-----------------------------------------------------------------------------
(* Specification of re-wrapping: records' DEKs are wrapped and stored on the *)
(* relay at various epochs, then rewrap_deks moves them to a new epoch.      *)

MaxPairs == 2
MaxRewrapEpoch == 3

RewrapEpochs == 1 .. MaxRewrapEpoch

\* The space's ratchet chain for this scenario: K1 is the key of epoch 1.
RewrapChainKey(e) == derive_forward(K1, SPACE_A, 1, e).val

RecordNames == {"rec-a", "rec-b"}
DekOf(id) == IF id = "rec-a" THEN DEK1 ELSE DEK2

\* A record's DEK is wrapped under kek with the given epoch label and stored.
StoreDek(id, kek, epoch) ==
  /\ rw.stage = "storing"
  /\ Len(rw.stored) < MaxPairs
  /\ rw' = [rw EXCEPT !.stored =
              Append(@, [id |-> id, dek |-> DekOf(id), kek |-> kek, epoch |-> epoch,
                         w |-> wrap_dek(DekOf(id), kek, epoch).val])]
  /\ UNCHANGED <<enc, dec, wire, last, dk, ch, mb>>

\* rewrap_deks is called on everything stored.
RewrapDeks(current_epoch, new_key, new_epoch) ==
  /\ rw.stage = "storing"
  /\ rw' = [stage |-> "rewrapped", stored |-> rw.stored,
            current_key |-> RewrapChainKey(current_epoch),
            current_epoch |-> current_epoch, new_key |-> new_key,
            new_epoch |-> new_epoch,
            res |-> rewrap_deks([i \in DOMAIN rw.stored |->
                                   <<rw.stored[i].id, rw.stored[i].w>>],
                                RewrapChainKey(current_epoch), current_epoch,
                                new_key, new_epoch, SPACE_A),
            buffers |-> rewrap_deks_buffers([i \in DOMAIN rw.stored |->
                                               <<rw.stored[i].id, rw.stored[i].w>>],
                                            RewrapChainKey(current_epoch), current_epoch,
                                            new_key, new_epoch, SPACE_A)]
  /\ UNCHANGED <<enc, dec, wire, last, dk, ch, mb>>

InitRewrap ==
  /\ rw = [stage |-> "storing", stored |-> <<>>]
  /\ enc = Parked /\ dec = Parked /\ wire = NoWire /\ last = Idle
  /\ dk = Parked /\ ch = Parked /\ mb = Parked

NextRewrap ==
  \/ \E id \in RecordNames, e \in RewrapEpochs : StoreDek(id, RewrapChainKey(e), e)
  \/ StoreDek("rec-b", K2, 1)
  \/ \E c \in RewrapEpochs, n \in RewrapEpochs :
       \E new_key \in {RewrapChainKey(n), K2, SHORT_KEY} : RewrapDeks(c, new_key, n)

SpecRewrap == InitRewrap /\ [][NextRewrap]_vars

-----------------------------------------------------------------------------
(* Properties of re-wrapping *)

Rewrapped == rw.stage = "rewrapped"

\* The stored inputs that are not already labelled with the target epoch.
NotAtTarget == SelectSeq(rw.stored, LAMBDA p : p.epoch # rw.new_epoch)

\* Every input is wrapped under the chain key of its own epoch, forward-derived
\* from current_key, with that epoch in [current_epoch, new_epoch], and the
\* target key is a 32-byte key.
RewrapInputsOnChain ==
  /\ rw.new_epoch > rw.current_epoch
  /\ rw.new_key.len = AES_KEY_LENGTH
  /\ \A i \in DOMAIN rw.stored :
       LET p == rw.stored[i] IN
       /\ p.epoch >= rw.current_epoch /\ p.epoch <= rw.new_epoch
       /\ p.kek = derive_forward(rw.current_key, SPACE_A, rw.current_epoch, p.epoch).val

\* C6: rotation correctness.  For new_epoch > current_epoch and inputs wrapped
\* under the forward-derived chain key of their own epoch, rewrap_deks returns,
\* in input order and with the same ids, one output per input not already
\* labelled new_epoch; every output has epoch prefix new_epoch and unwraps under
\* new_key to the original DEK; inputs labelled new_epoch are omitted.
C6_RotationCorrect ==
  (Rewrapped /\ RewrapInputsOnChain) =>
    /\ rw.res.ok
    /\ Len(rw.res.val) = Len(NotAtTarget)
    /\ \A i \in DOMAIN NotAtTarget :
         /\ rw.res.val[i][1] = NotAtTarget[i].id
         /\ peek_epoch(rw.res.val[i][2]) = Ok(rw.new_epoch)
         /\ unwrap_dek(rw.res.val[i][2], rw.new_key)
              = Ok([dek |-> NotAtTarget[i].dek, epoch |-> rw.new_epoch])

\* Two inputs at different epochs below the target are re-wrapped and a third
\* kind of input, already at the target, is left out.
C6_Witness ==
  /\ Rewrapped /\ RewrapInputsOnChain
  /\ Len(rw.stored) = MaxPairs
  /\ Len(NotAtTarget) >= 1
  /\ Len(NotAtTarget) < Len(rw.stored)
  /\ NotAtTarget[1].epoch > rw.current_epoch

\* What a removed member who kept the chain key of epoch o can compute with the
\* public derivation: derive_forward from that key, over any epoch range and
\* for any space id.
MemberKeys ==
  [o \in RewrapEpochs |->
     {derive_forward(RewrapChainKey(o), sp, r[1], r[2]).val :
        sp \in SpaceIds,
        r \in {x \in (0 .. MaxRewrapEpoch) \X (0 .. (MaxRewrapEpoch + 1)) :
                 x[2] >= x[1]}}]

\* The member who kept the key of epoch o unwraps w with some key in reach.
MemberUnwraps(o, w) == \E k \in MemberKeys[o] : unwrap_dek(w, k).ok

\* The wrapped DEKs labelled new_epoch that the relay holds after the re-wrap.
AtNewEpoch ==
  {rw.res.val[i][2] : i \in DOMAIN rw.res.val}
    \cup {rw.stored[i].w : i \in {j \in DOMAIN rw.stored :
                                    rw.stored[j].epoch = rw.new_epoch}}

\* C5: revocation.  After a successful rewrap_deks, a removed member who kept
\* only a chain key older than new_epoch cannot unwrap any re-wrapped DEK when
\* new_key is outside what derive_forward gives from the kept key; when new_key
\* is the ratchet key of new_epoch, the member derives it and unwraps every one.
C5_RevocationNeedsUnderivableKey ==
  (Rewrapped /\ rw.res.ok) =>
    \A o \in {e \in RewrapEpochs : e < rw.new_epoch} :
      \A i \in DOMAIN rw.res.val :
        /\ rw.new_key \notin MemberKeys[o] => ~MemberUnwraps(o, rw.res.val[i][2])
        /\ rw.new_key = RewrapChainKey(rw.new_epoch)
             => \E k \in MemberKeys[o] :
                  unwrap_dek(rw.res.val[i][2], k)
                    = Ok([dek |-> NotAtTarget[i].dek, epoch |-> rw.new_epoch])

\* A re-wrap under a fresh key, with outputs, and a removed member's epoch below.
C5_Witness ==
  /\ Rewrapped /\ rw.res.ok
  /\ rw.new_key = K2
  /\ Len(rw.res.val) = MaxPairs
  /\ rw.new_epoch > 1

\* C5 as stated: with new_key the ratchet key of new_epoch, a removed member who
\* kept a chain key older than new_epoch unwraps no DEK labelled new_epoch.
C5_RatchetKeyRevokes ==
  (Rewrapped /\ rw.res.ok /\ rw.new_key = RewrapChainKey(rw.new_epoch)) =>
    \A o \in {e \in RewrapEpochs : e < rw.new_epoch} :
      \A w \in AtNewEpoch : ~MemberUnwraps(o, w)

-----------------------------------------------------------------------------
(* ECDSA P-256 keys, signatures and did:key identifiers.                     *)
(* A JWK holds its coordinates as the byte strings that base64url decodes to. *)

KeyNames == {"alice", "bob", "carol"}

\* generate_p256_keypair
SigningKey(name) == [sk |-> name]

\* The public point of a key pair; bob's y is odd, the others' even.
PublicPoint(name) ==
  IF name = "alice" THEN [x |-> <<10>>, y |-> <<4>>]
  ELSE IF name = "bob" THEN [x |-> <<11>>, y |-> <<7>>]
  ELSE [x |-> <<12>>, y |-> <<6>>]

\* Left-pad to n bytes.
PadLeft(bytes, n) == IF Len(bytes) < n THEN Zeros(n - Len(bytes)) \o bytes ELSE bytes

export_public_key_jwk(key) ==
  [kty |-> "EC", crv |-> "P-256", x |-> PublicPoint(key.sk).x, y |-> PublicPoint(key.sk).y]

\* VerifyingKey::from_sec1_bytes accepts the points of the curve.
OnCurve(x, y) ==
  \E n \in KeyNames : /\ PadLeft(PublicPoint(n).x, 32) = x
                      /\ PadLeft(PublicPoint(n).y, 32) = y

import_public_key_jwk(jwk) ==
  IF "x" \notin DOMAIN jwk THEN Err("MissingJwkField")
  ELSE IF "y" \notin DOMAIN jwk THEN Err("MissingJwkField")
  ELSE LET Point(x, y) == IF OnCurve(x, y) THEN Ok([x |-> x, y |-> y])
                          ELSE Err("InvalidJwk")
       IN Point(PadLeft(jwk.x, 32), PadLeft(jwk.y, 32))

\* ECDSA signing, ideal: a signature is bound to the signing key and the message;
\* `changed` holds the indices of the bytes altered since.
sign(private_key, message) ==
  Ok([signer |-> private_key.sk, msg |-> message, changed |-> {}])

\* ECDSA verification, ideal: only an unaltered signature made by the private
\* key of this public key over this message verifies.
verify(public_key_jwk, message, signature_bytes) ==
  LET Imported(verifying_key) ==
        /\ verifying_key.ok
        /\ signature_bytes.changed = {}
        /\ import_public_key_jwk(export_public_key_jwk(SigningKey(signature_bytes.signer)))
             = verifying_key
        /\ signature_bytes.msg = message
  IN Imported(import_public_key_jwk(public_key_jwk))

\* Unsigned LEB128.
RECURSIVE varint_encode(_)
varint_encode(n) ==
  IF n = 0 THEN <<0>>
  ELSE IF n \div 128 > 0 THEN <<(n % 128) + 128>> \o varint_encode(n \div 128)
  ELSE <<n % 128>>

P256_MULTICODEC == 4608

compress_p256_public_key(jwk) ==
  IF "x" \notin DOMAIN jwk \/ "y" \notin DOMAIN jwk THEN Err("MissingJwkField")
  ELSE IF Len(jwk.x) = 0 \/ Len(jwk.y) = 0 \/ Len(jwk.x) > 32 \/ Len(jwk.y) > 32
       THEN Err("InvalidCoordinates")
  ELSE LET y_last_byte == jwk.y[Len(jwk.y)]
           prefix == IF y_last_byte % 2 = 0 THEN 2 ELSE 3
       IN Ok(<<prefix>> \o PadLeft(jwk.x, 32))

\* "did:key:z" followed by the base58btc text of the payload; base58btc is
\* one-to-one, so the identifier is kept as the payload it encodes.
encode_did_key_from_jwk(jwk) ==
  LET Compressed(c) ==
        IF ~c.ok THEN Err(c.err)
        ELSE Ok([did_key_z |-> varint_encode(P256_MULTICODEC) \o c.val])
  IN Compressed(compress_p256_public_key(jwk))

encode_did_key(signing_key) == encode_did_key_from_jwk(export_public_key_jwk(signing_key))

-----------------------------------------------------------------------------
(* Edit chain *)

\* serde_json::Value: null, a boolean, an integer, a string of plain
\* characters, an array, or an object (a map from key strings to values).
JNull == [t |-> "null", n |-> 0, s |-> ""]
JBool(b) == [t |-> "bool", n |-> IF b THEN 1 ELSE 0, s |-> ""]
JNum(n) == [t |-> "num", n |-> n, s |-> ""]
JStr(s) == [t |-> "str", n |-> 0, s |-> s]
JArr(items) == [t |-> "arr", n |-> 0, s |-> "", a |-> items]
JObj(map) == [t |-> "obj", n |-> 0, s |-> "", o |-> map]

\* serde_json::Map::new, insert and remove.
EmptyMap == [k \in {} |-> JNull]
MapInsert(map, key, value) == [k \in DOMAIN map \cup {key} |-> IF k = key THEN value ELSE map[k]]
MapRemove(map, key) == [k \in DOMAIN map \ {key} |-> map[k]]

\* The key strings in use, in the byte order of String's Ord.
KEYS_IN_ORDER == <<"", "__proto__", "a", "a.b", "b", "c", "constructor", "name", "other", "polluted", "prototype", "score", "x", "y">>

\* keys.sort() of a set of keys.
SortKeys(keys) ==
  LET Has(k) == k \in keys IN SelectSeq(KEYS_IN_ORDER, Has)

\* A path string is kept as its sequence of tokens: "." for every dot and a
\* non-empty string without dots for every run of other characters.
RECURSIVE PathString(_)
PathString(path) == IF path = <<>> THEN "" ELSE Head(path) \o PathString(Tail(path))

\* The tokens of a key string used as (part of) a path string.
DOTTED_KEY == "a.b"
KeyTokens(key) ==
  CASE key = "" -> <<>>
    [] key = DOTTED_KEY -> <<"a", ".", "b">>
    [] OTHER -> <<key>>

\* Option<bool>::None
NoDel == [some |-> FALSE, val |-> FALSE]

EditDiff(path, from, to, del) == [path |-> path, from |-> from, to |-> to, del |-> del]

\* serde_json::to_string of a string without characters that need escaping.
Quoted(s) == "\"" \o s \o "\""

RECURSIVE JoinComma(_)
JoinComma(items) ==
  IF items = <<>> THEN ""
  ELSE IF Len(items) = 1 THEN items[1]
  ELSE items[1] \o "," \o JoinComma(Tail(items))

RECURSIVE canonical_json(_)
canonical_json(value) ==
  IF value.t = "null" THEN "null"
  ELSE IF value.t = "bool" THEN (IF value.n = 1 THEN "true" ELSE "false")
  ELSE IF value.t = "num" THEN ToString(value.n)
  ELSE IF value.t = "str" THEN Quoted(value.s)
  ELSE IF value.t = "arr"
    THEN "[" \o JoinComma([i \in DOMAIN value.a |-> canonical_json(value.a[i])]) \o "]"
  ELSE LET keys == SortKeys(DOMAIN value.o)
       IN "{" \o JoinComma([i \in DOMAIN keys |->
                              Quoted(keys[i]) \o ":" \o canonical_json(value.o[keys[i]])])
              \o "}"

\* Numbers here are finite, so canonical_json never fails.
canonical_json_value(value) == canonical_json(value)

\* The canonical text of one normalized diff: an object with sorted keys.
NormalizedDiffJson(d) ==
  "{" \o (IF d.del = Some(TRUE) THEN "\"del\":true," ELSE "")
      \o "\"from\":" \o canonical_json(d.from)
      \o ",\"path\":" \o Quoted(PathString(d.path))
      \o ",\"to\":" \o canonical_json(d.to) \o "}"

\* Strings that hold a NUL character, written here with \0, and the pieces
\* that lie between their NUL characters.
COLLECTION_WITH_NUL == "a\\0b"
RECORD_ID_WITH_NUL == "b\\0c"

\* `s.split('\0')`: the NUL-free pieces of a string, in order.
split_nul(s) ==
  CASE s = COLLECTION_WITH_NUL -> <<"a", "b">>
    [] s = RECORD_ID_WITH_NUL -> <<"b", "c">>
    [] OTHER -> <<s>>

\* The message is the prefix and the six fields written one after the other
\* with a NUL between them.  It is kept as the sequence of the NUL-free pieces
\* of that string, which determines the string: collection and record_id
\* contribute one piece for each NUL they hold plus one; author (a DID),
\* the decimal timestamp, prev_hash (hexadecimal, or the empty string <<>> when
\* absent) and diffs_json (serde_json escapes control characters) are one
\* piece each.
build_edit_signing_message(collection, record_id, author, timestamp, prev_hash, diffs) ==
  LET diffs_json ==
        "[" \o JoinComma([i \in DOMAIN diffs |-> NormalizedDiffJson(diffs[i])]) \o "]"
  IN <<"less:editlog:v1">> \o split_nul(collection) \o split_nul(record_id)
       \o <<author, ToString(timestamp),
            IF prev_hash.some THEN prev_hash.val ELSE <<>>, diffs_json>>

\* SHA-256, ideal: the digest determines the data.
sha256_hash(data) == [sha256 |-> data, alt |-> FALSE]

\* The 64 hexadecimal characters of a digest, kept as a one-element string.
uint8_to_hex(data) == <<data>>

\* A u64 v is kept as v when it is below 2^30 and as v - 2^64 when it is within
\* 2^30 of the top, so u64::MAX is -1 and wrapping addition is integer addition.
U64_MAX == 0 - 1
U64Less(a, b) == IF (a < 0) = (b < 0) THEN a < b ELSE b < 0
U64Max(a, b) == IF U64Less(a, b) THEN b ELSE a

\* `prev.t + 1` on u64 panics when the build checks arithmetic overflow (debug
\* profile) and wraps to 0 when it does not (release profile).
sign_edit_entry(private_key, public_key_jwk, collection, record_id, author, timestamp, diffs, prev_entry, overflow_checks) ==
  IF prev_entry.some /\ prev_entry.val.t = U64_MAX /\ overflow_checks
  THEN Err("panic: attempt to add with overflow")
  ELSE
  LET prev_hash == IF prev_entry.some
                   THEN Some(uint8_to_hex(sha256_hash(prev_entry.val.s))) ELSE None
      t == IF prev_entry.some THEN U64Max(timestamp, prev_entry.val.t + 1)
           ELSE timestamp
      Signed(s) ==
        IF ~s.ok THEN Err(s.err)
        ELSE Ok([a |-> author, t |-> t, d |-> diffs, p |-> prev_hash, s |-> s.val,
                 k |-> public_key_jwk])
  IN Signed(sign(private_key,
                 build_edit_signing_message(collection, record_id, author, t, prev_hash,
                                            diffs)))

\* verify_edit_entry without the comparison of the key's DID with entry.a.
verify_edit_entry_any_author(entry, collection, record_id) ==
  LET Derived(derived_did) ==
        IF ~derived_did.ok THEN FALSE
        ELSE verify(entry.k,
                    build_edit_signing_message(collection, record_id, entry.a, entry.t,
                                               entry.p, entry.d),
                    entry.s)
  IN Derived(encode_did_key_from_jwk(entry.k))

verify_edit_entry(entry, collection, record_id) ==
  LET Derived(derived_did) ==
        IF ~derived_did.ok THEN FALSE
        ELSE IF derived_did.val # entry.a THEN FALSE
        ELSE verify(entry.k,
                    build_edit_signing_message(collection, record_id, entry.a, entry.t,
                                               entry.p, entry.d),
                    entry.s)
  IN Derived(encode_did_key_from_jwk(entry.k))

\* verify_edit_chain, the loop from index i (1-based).
RECURSIVE VerifyEntriesFrom(_, _, _, _)
VerifyEntriesFrom(entries, i, collection, record_id) ==
  IF i > Len(entries) THEN TRUE
  ELSE IF ~verify_edit_entry(entries[i], collection, record_id) THEN FALSE
  ELSE IF i > 1 /\ entries[i].p # Some(uint8_to_hex(sha256_hash(entries[i - 1].s)))
       THEN FALSE
  ELSE VerifyEntriesFrom(entries, i + 1, collection, record_id)

\* verify_edit_chain without the hash linkage check.
verify_edit_chain_unlinked(entries, collection, record_id) ==
  IF entries = <<>> THEN TRUE
  ELSE IF entries[1].p.some THEN FALSE
  ELSE \A i \in DOMAIN entries : verify_edit_entry(entries[i], collection, record_id)

\* verify_edit_chain without the test that the first entry has no p.
verify_edit_chain_any_first_link(entries, collection, record_id) ==
  IF entries = <<>> THEN TRUE
  ELSE VerifyEntriesFrom(entries, 1, collection, record_id)

verify_edit_chain(entries, collection, record_id) ==
  IF entries = <<>> THEN TRUE
  ELSE IF entries[1].p.some THEN FALSE
  ELSE VerifyEntriesFrom(entries, 1, collection, record_id)

-----------------------------------------------------------------------------
(* Specification of the edit chain: authors append signed entries, one      *)
(* alteration is made to the stored chain, and the chain is verified.        *)

MaxChainLen == 3

COLLECTION == "test"
RECORD_ID == "rec-001"

Authors == {"alice", "bob"}
FIRST_TIMESTAMP == 1000

D_NAME == EditDiff(<<"name">>, JNull, JStr("Alice"), NoDel)
D_SCORE == EditDiff(<<"score">>, JNum(0), JNum(10), NoDel)
D_GONE == EditDiff(<<"name">>, JStr("Alice"), JNull, Some(TRUE))
DiffLists == {<<D_NAME>>, <<D_SCORE, D_GONE>>}

\* The diffs that d can be changed into: another path, another previous value,
\* another new value (a number, or the text of the number), another `del`.
DiffChanges(d) ==
  ({[d EXCEPT !.path = <<"other">>], [d EXCEPT !.from = JNum(1)],
    [d EXCEPT !.to = JNum(999)], [d EXCEPT !.to = JStr("10")]}
     \cup {[d EXCEPT !.del = x] : x \in {NoDel, Some(TRUE), Some(FALSE)}}) \ {d}

\* Byte indices of the 64-byte signature r || s: the first of r, the last of s.
SignatureBytes == {0, 63}

\* The values a hash link can be changed into.
LinkChanges(entries) ==
  {None, Some(<<>>)}
    \cup {Some(uint8_to_hex(sha256_hash(entries[i].s))) : i \in DOMAIN entries}
    \cup {Some(uint8_to_hex([sha256_hash(entries[i].s) EXCEPT !.alt = TRUE])) :
            i \in DOMAIN entries}

Untouched == [kind |-> "none"]
Unverified == [some |-> FALSE, val |-> [collection |-> "", record_id |-> "", valid |-> FALSE]]

SignEditEntry(name, timestamp, diffs) ==
  /\ ch.stage = "building"
  /\ ~ch.verdict.some
  /\ Len(ch.entries) < MaxChainLen
  /\ \E r \in {sign_edit_entry(SigningKey(name), export_public_key_jwk(SigningKey(name)),
                               COLLECTION, RECORD_ID, encode_did_key(SigningKey(name)).val,
                               timestamp, diffs,
                               IF ch.entries = <<>> THEN None
                               ELSE Some(ch.entries[Len(ch.entries)]),
                               overflow_checks) : overflow_checks \in BOOLEAN} :
       /\ r.ok
       /\ ch' = [ch EXCEPT !.entries = Append(@, r.val)]
  /\ UNCHANGED <<enc, dec, wire, last, dk, rw, mb>>

Altered(entries, tamper) ==
  /\ ch.stage = "building"
  /\ ~ch.verdict.some
  /\ ch' = [ch EXCEPT !.stage = "altered", !.entries = entries, !.tamper = tamper]
  /\ UNCHANGED <<enc, dec, wire, last, dk, rw, mb>>

ChangeDiff(i, j, d) ==
  /\ i \in DOMAIN ch.entries
  /\ j \in DOMAIN ch.entries[i].d
  /\ d \in DiffChanges(ch.entries[i].d[j])
  /\ Altered([ch.entries EXCEPT ![i].d[j] = d],
             [kind |-> "diff", old |-> ch.entries[i].d[j], new |-> d])

ChangeSignatureByte(i, byte) ==
  /\ i \in DOMAIN ch.entries
  /\ Altered([ch.entries EXCEPT ![i].s.changed = {byte}], [kind |-> "signature"])

ChangeHashLink(i) ==
  /\ i \in DOMAIN ch.entries
  /\ \E p \in LinkChanges(ch.entries) :
       /\ p # ch.entries[i].p
       /\ Altered([ch.entries EXCEPT ![i].p = p], [kind |-> "link"])

RemoveFirstEntry ==
  /\ Len(ch.entries) >= 2
  /\ Altered(Tail(ch.entries), [kind |-> "remove-first"])

SwapEntries(i, j) ==
  /\ i \in DOMAIN ch.entries /\ j \in DOMAIN ch.entries
  /\ i < j
  /\ Altered([ch.entries EXCEPT ![i] = ch.entries[j], ![j] = ch.entries[i]],
             [kind |-> "swap"])

VerifyEditChain(collection, record_id) ==
  /\ ch.stage \in {"building", "altered"}
  /\ ~ch.verdict.some
  /\ ch' = [ch EXCEPT !.verdict =
              Some([collection |-> collection, record_id |-> record_id,
                    valid |-> verify_edit_chain(ch.entries, collection, record_id)])]
  /\ UNCHANGED <<enc, dec, wire, last, dk, rw, mb>>

InitChain ==
  /\ ch = [stage |-> "building", entries |-> <<>>, tamper |-> Untouched,
          verdict |-> Unverified]
  /\ enc = Parked /\ dec = Parked /\ wire = NoWire /\ last = Idle
  /\ dk = Parked /\ rw = Parked /\ mb = Parked

NextChain ==
  \/ \E name \in Authors, diffs \in DiffLists : SignEditEntry(name, FIRST_TIMESTAMP, diffs)
  \/ \E i \in 1 .. MaxChainLen, j \in 1 .. 2 :
       \E d \in DiffChanges(D_NAME) \cup DiffChanges(D_SCORE) \cup DiffChanges(D_GONE) :
         ChangeDiff(i, j, d)
  \/ \E i \in 1 .. MaxChainLen, byte \in SignatureBytes : ChangeSignatureByte(i, byte)
  \/ \E i \in 1 .. MaxChainLen : ChangeHashLink(i)
  \/ RemoveFirstEntry
  \/ \E i \in 1 .. MaxChainLen, j \in 1 .. MaxChainLen : SwapEntries(i, j)
  \/ VerifyEditChain(COLLECTION, RECORD_ID)

SpecChain == InitChain /\ [][NextChain]_vars

-----------------------------------------------------------------------------
(* Properties of the edit chain *)

\* The chain has been verified for the collection and record it was signed for.
ChainVerified ==
  /\ ch.stage \in {"building", "altered"}
  /\ ch.verdict.some
  /\ ch.verdict.val.collection = COLLECTION
  /\ ch.verdict.val.record_id = RECORD_ID

\* The two diffs differ only in `del` being absent in one and Some(false) in
\* the other.
DelAbsentOrFalse(old, new) ==
  /\ old.path = new.path /\ old.from = new.from /\ old.to = new.to
  /\ {old.del, new.del} = {NoDel, Some(FALSE)}

\* C7: a chain built by successive sign_edit_entry calls verifies; it fails to
\* verify after a change of a signature byte, of a hash link, the removal of the
\* first entry of a chain of two or more, a swap of two entries, or a change of
\* a diff, except that a diff whose `del` is changed between absent and
\* Some(false) still verifies.
C7_TamperDetected ==
  ChainVerified =>
    ch.verdict.val.valid =
      (\/ ch.tamper.kind = "none"
       \/ /\ ch.tamper.kind = "diff"
          /\ DelAbsentOrFalse(ch.tamper.old, ch.tamper.new))

\* A three-entry chain by two authors, two of its entries swapped, verified.
C7_Witness ==
  /\ ChainVerified
  /\ ch.tamper.kind = "swap"
  /\ Len(ch.entries) = MaxChainLen
  /\ \E i, j \in DOMAIN ch.entries : ch.entries[i].a # ch.entries[j].a
  /\ ~ch.verdict.val.valid

\* C7 as stated: the built chain verifies and every one of the alterations,
\* any change of a diff included, makes verification fail.
C7_EveryChangeDetected ==
  ChainVerified => (ch.verdict.val.valid = (ch.tamper.kind = "none"))

-----------------------------------------------------------------------------
(* UCAN tokens and membership log entries.                                   *)
(* A JWT is kept as the sequence of its '.'-separated parts, and its payload *)
(* part as the JSON object that the base64url text decodes to.               *)

\* The empty string in a position that otherwise holds a did:key identifier.
EMPTY_DID == [did_key_z |-> <<>>]

JWT_HEADER == [alg |-> "ES256", typ |-> "JWT"]

\* A JSON string, a JSON array of strings, or an absent field.
JsonString(v) == [kind |-> "string", v |-> <<v>>]
JsonArray(v) == [kind |-> "array", v |-> v]

sign_es256_jwt(private_key, payload) ==
  LET Signed(signature) ==
        IF ~signature.ok THEN Err(signature.err)
        ELSE Ok(<<JWT_HEADER, payload, signature.val>>)
  IN Signed(sign(private_key, <<JWT_HEADER, payload>>))

issue_root_ucan(private_key, issuer_did, audience_did, space_id) ==
  sign_es256_jwt(private_key,
                 [iss |-> JsonString(issuer_did), aud |-> JsonArray(<<audience_did>>),
                  with |-> space_id])

normalize_did_field(value) ==
  IF value.kind = "string" THEN value.v[1]
  ELSE IF value.kind = "array" THEN (IF value.v # <<>> THEN value.v[1] ELSE EMPTY_DID)
  ELSE EMPTY_DID

parse_ucan_payload(ucan) ==
  IF Len(ucan) # 3 THEN Err("InvalidMembershipEntry")
  ELSE Ok([issuer_did |-> normalize_did_field(ucan[2].iss),
           audience_did |-> normalize_did_field(ucan[2].aud)])

verify_ucan_signature(ucan, public_key_jwk) ==
  IF Len(ucan) # 3 THEN Ok(FALSE)
  ELSE Ok(verify(public_key_jwk, <<ucan[1], ucan[2]>>, ucan[3]))

MEMBERSHIP_PREFIX == "less:membership:v1"

\* Option<String>::None
NoHandle == [some |-> FALSE, val |-> ""]

\* The fields joined by NUL, kept as the sequence of the fields.
build_membership_signing_message(entry_type, space_id, signer_did, ucan, signer_handle, recipient_handle) ==
  <<MEMBERSHIP_PREFIX, entry_type, space_id, signer_did, ucan, signer_handle,
    recipient_handle>>

\* verify_membership_entry with the signer role not tied to the entry type.
verify_membership_entry_any_role(entry, space_id) ==
  LET Checked(parsed, signer_did) ==
        IF signer_did # parsed.issuer_did /\ signer_did # parsed.audience_did
        THEN Ok(FALSE)
        ELSE IF ~verify(entry.signer_public_key,
                        build_membership_signing_message(
                          entry.entry_type, space_id, signer_did, entry.ucan,
                          IF entry.signer_handle.some THEN entry.signer_handle.val ELSE "",
                          IF entry.recipient_handle.some THEN entry.recipient_handle.val
                          ELSE ""),
                        entry.signature)
        THEN Ok(FALSE)
        ELSE IF parsed.issuer_did = parsed.audience_did
        THEN verify_ucan_signature(entry.ucan, entry.signer_public_key)
        ELSE Ok(TRUE)
      WithSigner(parsed, signer_did) ==
        IF ~signer_did.ok THEN Err(signer_did.err) ELSE Checked(parsed, signer_did.val)
      Parsed(parsed) ==
        IF ~parsed.ok THEN Err(parsed.err)
        ELSE WithSigner(parsed.val, encode_did_key_from_jwk(entry.signer_public_key))
  IN Parsed(parse_ucan_payload(entry.ucan))

verify_membership_entry(entry, space_id) ==
  LET Checked(parsed, signer_did) ==
        LET expected_signer_did ==
              IF entry.entry_type \in {"d", "r"} THEN parsed.issuer_did
              ELSE parsed.audience_did
        IN IF signer_did # expected_signer_did THEN Ok(FALSE)
           ELSE IF ~verify(entry.signer_public_key,
                           build_membership_signing_message(
                             entry.entry_type, space_id, signer_did, entry.ucan,
                             IF entry.signer_handle.some THEN entry.signer_handle.val ELSE "",
                             IF entry.recipient_handle.some THEN entry.recipient_handle.val
                             ELSE ""),
                           entry.signature)
           THEN Ok(FALSE)
           ELSE IF parsed.issuer_did = parsed.audience_did
           THEN verify_ucan_signature(entry.ucan, entry.signer_public_key)
           ELSE Ok(TRUE)
      WithSigner(parsed, signer_did) ==
        IF ~signer_did.ok THEN Err(signer_did.err) ELSE Checked(parsed, signer_did.val)
      Parsed(parsed) ==
        IF ~parsed.ok THEN Err(parsed.err)
        ELSE WithSigner(parsed.val, encode_did_key_from_jwk(entry.signer_public_key))
  IN Parsed(parse_ucan_payload(entry.ucan))

-----------------------------------------------------------------------------
(* Specification of the membership log: a UCAN is issued, someone writes a   *)
(* log entry for it, and a reader verifies the entry.                        *)

DidOf(name) == encode_did_key(SigningKey(name)).val

EntryTypes == {"d", "a", "x", "r"}
Handles == {NoHandle, Some("alice@example.com")}

\* issue_root_ucan naming admin as issuer and member as audience, signed with
\* the key of `signer`.
IssueUcan(admin, member, signer) ==
  /\ mb.stage = "start"
  /\ \E r \in {issue_root_ucan(SigningKey(signer), DidOf(admin), DidOf(member), SPACE_A)} :
       /\ r.ok
       /\ mb' = [stage |-> "issued", ucan |-> r.val, issuer |-> admin,
                 audience |-> member, ucan_signer |-> signer]
  /\ UNCHANGED <<enc, dec, wire, last, dk, rw, ch>>

\* The token loses its signature part on the way to the log.
TruncateUcan ==
  /\ mb.stage = "issued"
  /\ Len(mb.ucan) = 3
  /\ mb' = [mb EXCEPT !.ucan = SubSeq(@, 1, 2)]
  /\ UNCHANGED <<enc, dec, wire, last, dk, rw, ch>>

\* `signer` signs an entry of the given type for the space and embeds the
\* public key of `embedded` as the signer key.
WriteEntry(entry_type, signer, embedded, space_id, signer_handle) ==
  /\ mb.stage = "issued"
  /\ \E jwk \in {export_public_key_jwk(SigningKey(embedded))} :
       \E s \in {sign(SigningKey(signer),
                      build_membership_signing_message(
                        entry_type, space_id, encode_did_key_from_jwk(jwk).val, mb.ucan,
                        IF signer_handle.some THEN signer_handle.val ELSE "", ""))} :
         /\ s.ok
         /\ mb' = [stage |-> "written", ucan |-> mb.ucan, issuer |-> mb.issuer,
                   audience |-> mb.audience, ucan_signer |-> mb.ucan_signer,
                   signed_by |-> signer, embedded |-> embedded, signed_for |-> space_id,
                   entry |-> [ucan |-> mb.ucan, entry_type |-> entry_type,
                              signature |-> s.val, signer_public_key |-> jwk,
                              signer_handle |-> signer_handle,
                              recipient_handle |-> NoHandle]]
  /\ UNCHANGED <<enc, dec, wire, last, dk, rw, ch>>

\* The stored entry's type is replaced.
ChangeEntryType(entry_type) ==
  /\ mb.stage = "written"
  /\ entry_type # mb.entry.entry_type
  /\ mb' = [mb EXCEPT !.stage = "retyped", !.entry.entry_type = entry_type]
  /\ UNCHANGED <<enc, dec, wire, last, dk, rw, ch>>

VerifyMembershipEntry(space_id) ==
  /\ mb.stage \in {"written", "retyped"}
  /\ mb' = [stage |-> "verified", ucan |-> mb.ucan, issuer |-> mb.issuer,
            audience |-> mb.audience, ucan_signer |-> mb.ucan_signer,
            signed_by |-> mb.signed_by, embedded |-> mb.embedded,
            signed_for |-> mb.signed_for, entry |-> mb.entry,
            retyped |-> mb.stage = "retyped", space_id |-> space_id,
            verdict |-> verify_membership_entry(mb.entry, space_id)]
  /\ UNCHANGED <<enc, dec, wire, last, dk, rw, ch>>

InitMember ==
  /\ mb = [stage |-> "start"]
  /\ enc = Parked /\ dec = Parked /\ wire = NoWire /\ last = Idle
  /\ dk = Parked /\ rw = Parked /\ ch = Parked

NextMember ==
  \/ \E member \in {"alice", "bob"}, signer \in {"alice", "carol"} :
       IssueUcan("alice", member, signer)
  \/ TruncateUcan
  \/ \E entry_type \in EntryTypes, signer \in KeyNames, embedded \in KeyNames,
        space_id \in SpaceIds, signer_handle \in Handles :
       WriteEntry(entry_type, signer, embedded, space_id, signer_handle)
  \/ \E entry_type \in EntryTypes : ChangeEntryType(entry_type)
  \/ \E space_id \in SpaceIds : VerifyMembershipEntry(space_id)

SpecMember == InitMember /\ [][NextMember]_vars

-----------------------------------------------------------------------------
(* Properties of membership entries *)

Accepted == mb.stage = "verified" /\ mb.verdict.ok /\ mb.verdict.val

\* The person whose role the entry type calls for.
ExpectedSigner ==
  IF mb.entry.entry_type \in {"d", "r"} THEN mb.issuer ELSE mb.audience

\* C8: verify_membership_entry returns true only if (a) the embedded signer key
\* is the key of the UCAN issuer for delegation/revoked entries and of the UCAN
\* audience for accepted/declined entries, (b) the entry was signed with that
\* key's private key for the space it is verified for, with the entry type
\* unchanged, and (c) for a self-issued UCAN the token was signed with that key
\* too; a delegation entry signed by an audience other than the issuer is
\* never accepted.
C8_RoleBinding ==
  /\ Accepted =>
       /\ mb.embedded = ExpectedSigner
       /\ mb.signed_by = mb.embedded
       /\ mb.signed_for = mb.space_id
       /\ ~mb.retyped
       /\ Len(mb.ucan) = 3
       /\ mb.issuer = mb.audience => mb.ucan_signer = mb.embedded
  /\ (/\ mb.stage = "verified"
      /\ mb.entry.entry_type = "d"
      /\ mb.signed_by = mb.audience
      /\ mb.audience # mb.issuer) => ~Accepted

\* A delegation entry written and signed by the audience, who is not the
\* issuer, verified and turned down.
C8_Witness ==
  /\ mb.stage = "verified"
  /\ mb.entry.entry_type = "d"
  /\ ~mb.retyped
  /\ mb.signed_by = mb.audience /\ mb.embedded = mb.audience
  /\ mb.audience # mb.issuer
  /\ mb.signed_for = mb.space_id
  /\ mb.verdict.ok /\ ~mb.verdict.val

\* C8 as stated: a delegation entry signed by the UCAN's audience is rejected.
C8_AudienceSignedDelegationRejected ==
  (/\ mb.stage = "verified"
   /\ mb.entry.entry_type = "d"
   /\ mb.signed_by = mb.audience) => ~Accepted

-----------------------------------------------------------------------------
(* Specification of the signer alone: entries are appended by sign_edit_entry *)
(* with timestamps of the callers' choosing, each on top of the previous one. *)

LATER_TIMESTAMP == 5000
Timestamps == {FIRST_TIMESTAMP, LATER_TIMESTAMP, U64_MAX}

NextSigner ==
  \E name \in Authors, timestamp \in Timestamps : SignEditEntry(name, timestamp, <<D_NAME>>)

SpecSigner == InitChain /\ [][NextSigner]_vars

\* C11: in a chain built by successive sign_edit_entry calls, entry 0 has
\* p = None, every later entry has p = hex(SHA256(previous entry's s)), and t is
\* strictly increasing along the chain, whatever timestamps were supplied.
C11_ChainInvariant ==
  \A i \in DOMAIN ch.entries :
    IF i = 1 THEN ch.entries[i].p = None
    ELSE /\ ch.entries[i].p = Some(uint8_to_hex(sha256_hash(ch.entries[i - 1].s)))
         /\ U64Less(ch.entries[i - 1].t, ch.entries[i].t)

\* The links and, below u64::MAX, the order of t: the part of C11 that holds.
C11_LinksAndOrderBelowMax ==
  \A i \in DOMAIN ch.entries :
    IF i = 1 THEN ch.entries[i].p = None
    ELSE /\ ch.entries[i].p = Some(uint8_to_hex(sha256_hash(ch.entries[i - 1].s)))
         /\ ch.entries[i - 1].t # U64_MAX => U64Less(ch.entries[i - 1].t, ch.entries[i].t)

\* An entry signed on top of one whose t is u64::MAX, with a smaller t.
C11_Witness ==
  \E i \in DOMAIN ch.entries :
    /\ i > 1
    /\ ch.entries[i - 1].t = U64_MAX
    /\ ch.entries[i].t = FIRST_TIMESTAMP

-----------------------------------------------------------------------------
(* Specification of single-entry verification: one entry is signed, possibly *)
(* under another author's name, one of its fields may be replaced, and       *)
(* verify_edit_entry is called on it.                                        *)

OTHER_COLLECTION == "notes"
OTHER_RECORD_ID == "rec-002"

\* Keys that are no P-256 public key: a JSON value without coordinates, a key
\* without x, without y, with an empty x, with a 33-byte x, and a point off the
\* curve that shares alice's x and the parity of her y.
MalformedKeys ==
  {[kty |-> "EC"], [kty |-> "EC", y |-> <<4>>], [kty |-> "EC", x |-> <<10>>],
   [kty |-> "EC", x |-> <<>>, y |-> <<4>>],
   [kty |-> "EC", x |-> Zeros(32) \o <<10>>, y |-> <<4>>],
   [kty |-> "EC", crv |-> "P-256", x |-> <<10>>, y |-> <<6>>]}

\* The entry with its key, its author or one signature byte replaced.
EntryChanges(entry) ==
  ({[entry EXCEPT !.k = k] : k \in MalformedKeys}
     \cup {[entry EXCEPT !.k = export_public_key_jwk(SigningKey(n))] : n \in Authors}
     \cup {[entry EXCEPT !.a = encode_did_key(SigningKey(n)).val] : n \in Authors}
     \cup {[entry EXCEPT !.s.changed = {b}] : b \in SignatureBytes}) \ {entry}

\* `signer` signs a first entry naming `author` as its author.
SignOneEntry(signer, author, collection, record_id) ==
  /\ ch.stage = "unsigned"
  /\ \E r \in {sign_edit_entry(SigningKey(signer), export_public_key_jwk(SigningKey(signer)),
                               collection, record_id, encode_did_key(SigningKey(author)).val,
                               FIRST_TIMESTAMP, <<D_NAME>>, None, TRUE)} :
       /\ r.ok
       /\ ch' = [stage |-> "signed", entry |-> r.val, signer |-> signer, author |-> author,
                 collection |-> collection, record_id |-> record_id, intact |-> TRUE]
  /\ UNCHANGED <<enc, dec, wire, last, dk, rw, mb>>

TamperEntry ==
  /\ ch.stage = "signed"
  /\ ch.intact
  /\ \E e \in EntryChanges(ch.entry) : ch' = [ch EXCEPT !.entry = e, !.intact = FALSE]
  /\ UNCHANGED <<enc, dec, wire, last, dk, rw, mb>>

VerifyEditEntry(collection, record_id) ==
  /\ ch.stage = "signed"
  /\ ch' = [stage |-> "verified", entry |-> ch.entry, signer |-> ch.signer,
            author |-> ch.author, collection |-> ch.collection,
            record_id |-> ch.record_id, intact |-> ch.intact,
            as_collection |-> collection, as_record_id |-> record_id,
            valid |-> verify_edit_entry(ch.entry, collection, record_id)]
  /\ UNCHANGED <<enc, dec, wire, last, dk, rw, mb>>

InitEntry ==
  /\ ch = [stage |-> "unsigned"]
  /\ enc = Parked /\ dec = Parked /\ wire = NoWire /\ last = Idle
  /\ dk = Parked /\ rw = Parked /\ mb = Parked

NextEntry ==
  \/ \E signer \in Authors, author \in Authors,
        collection \in {COLLECTION, OTHER_COLLECTION} :
       SignOneEntry(signer, author, collection, RECORD_ID)
  \/ TamperEntry
  \/ \E collection \in {COLLECTION, OTHER_COLLECTION},
        record_id \in {RECORD_ID, OTHER_RECORD_ID} :
       VerifyEditEntry(collection, record_id)

SpecEntry == InitEntry /\ [][NextEntry]_vars

\* C12: verify_edit_entry returns a boolean on every input, and returns true
\* only if the DID recomputed from entry.k equals entry.a and entry.s is the
\* unaltered signature, by the private key of entry.k, of the signing message
\* rebuilt from (collection, record_id, entry.a, entry.t, entry.p, entry.d).
C12_EntryVerification ==
  ch.stage = "verified" =>
    /\ ch.valid \in BOOLEAN
    /\ ch.valid =>
         /\ encode_did_key_from_jwk(ch.entry.k).ok
         /\ encode_did_key_from_jwk(ch.entry.k).val = ch.entry.a
         /\ ch.entry.k = export_public_key_jwk(SigningKey(ch.signer))
         /\ ch.entry.s.changed = {}
         /\ ch.entry.s.msg =
              build_edit_signing_message(ch.as_collection, ch.as_record_id, ch.entry.a,
                                         ch.entry.t, ch.entry.p, ch.entry.d)
    /\ (/\ ch.intact /\ ch.signer = ch.author
        /\ ch.as_collection = ch.collection /\ ch.as_record_id = ch.record_id) => ch.valid

\* An entry whose key was replaced by a malformed one is verified and refused.
C12_Witness ==
  /\ ch.stage = "verified"
  /\ ch.entry.k \in MalformedKeys
  /\ ~encode_did_key_from_jwk(ch.entry.k).ok
  /\ ~ch.valid

-----------------------------------------------------------------------------
(* State reconstruction *)

BANNED_SEGMENTS == <<"__proto__", "constructor", "prototype">>

\* path.split('.'): the strings between the dots, empty strings included.
RECURSIVE SplitDot(_, _, _)
SplitDot(path, segment, parts) ==
  IF path = <<>> THEN Append(parts, segment)
  ELSE IF Head(path) = "." THEN SplitDot(Tail(path), "", Append(parts, segment))
  ELSE SplitDot(Tail(path), segment \o Head(path), parts)

split(path) == SplitDot(path, "", <<>>)

\* assert_safe_path that looks at the first segment only.
assert_safe_path_first_only(parts) ==
  IF \E i \in DOMAIN BANNED_SEGMENTS : BANNED_SEGMENTS[i] = Head(parts)
    THEN Err("DangerousPathSegment")
  ELSE Ok("unit")

RECURSIVE assert_safe_path(_)
assert_safe_path(parts) ==
  IF parts = <<>> THEN Ok("unit")
  ELSE IF \E i \in DOMAIN BANNED_SEGMENTS : BANNED_SEGMENTS[i] = Head(parts)
    THEN Err("DangerousPathSegment")
  ELSE assert_safe_path(Tail(parts))

\* navigate_to_parent followed by the caller's step on the parent it returns:
\* obj with every segment before the last made an object (a missing or
\* non-object value is replaced by an empty object) and the last segment
\* inserted with step.value, or removed when step.remove.
RECURSIVE navigate_to_parent(_, _, _)
navigate_to_parent(obj, parts, step) ==
  IF Len(parts) = 1
    THEN IF step.remove THEN MapRemove(obj, parts[1]) ELSE MapInsert(obj, parts[1], step.value)
  ELSE LET key == Head(parts)
           current == IF key \in DOMAIN obj /\ obj[key].t = "obj" THEN obj[key].o ELSE EmptyMap
       IN MapInsert(obj, key, JObj(navigate_to_parent(current, Tail(parts), step)))

set_nested_path(obj, path, value) ==
  LET Checked(parts, safe) ==
        IF ~safe.ok THEN Err(safe.err)
        ELSE Ok(navigate_to_parent(obj, parts, [remove |-> FALSE, value |-> value]))
  IN Checked(split(path), assert_safe_path(split(path)))

\* delete_nested_path that stores null where it should remove the key.
delete_nested_path_to_null(obj, path) ==
  LET Checked(parts, safe) ==
        IF ~safe.ok THEN Err(safe.err)
        ELSE Ok(navigate_to_parent(obj, parts, [remove |-> FALSE, value |-> JNull]))
  IN Checked(split(path), assert_safe_path(split(path)))

delete_nested_path(obj, path) ==
  LET Checked(parts, safe) ==
        IF ~safe.ok THEN Err(safe.err)
        ELSE Ok(navigate_to_parent(obj, parts, [remove |-> TRUE, value |-> JNull]))
  IN Checked(split(path), assert_safe_path(split(path)))

RECURSIVE ApplyDiffsFrom(_, _, _)
ApplyDiffsFrom(next, diffs, i) ==
  IF i > Len(diffs) THEN Ok(next)
  ELSE LET Stepped(r) == IF ~r.ok THEN Err(r.err) ELSE ApplyDiffsFrom(r.val, diffs, i + 1)
       IN Stepped(IF diffs[i].del = Some(TRUE)
                    THEN delete_nested_path(next, diffs[i].path)
                    ELSE set_nested_path(next, diffs[i].path, diffs[i].to))

apply_diffs(state, diffs) == ApplyDiffsFrom(state, diffs, 1)

Min(a, b) == IF a < b THEN a ELSE b

\* The loop of reconstruct_state from index i (counted from 0) to index end.
RECURSIVE ReconstructFrom(_, _, _, _)
ReconstructFrom(state, entries, i, end) ==
  IF i > end \/ i >= Len(entries) THEN Ok(JObj(state))
  ELSE LET Applied(r) ==
             IF ~r.ok THEN Err(r.err) ELSE ReconstructFrom(r.val, entries, i + 1, end)
       IN Applied(apply_diffs(state, entries[i + 1].d))

reconstruct_state(entries, up_to_index) ==
  ReconstructFrom(EmptyMap, entries, 0, Min(up_to_index, IF entries = <<>> THEN 0 ELSE Len(entries) - 1))

-----------------------------------------------------------------------------
(* Specification of reconstruction: alice signs a chain of up to MaxReconLen *)
(* entries, each with one of a few diff lists, and reconstruct_state is      *)
(* called on the chain with an index that may lie beyond its end.            *)

MaxReconLen == 3

\* The path string of a list of segments: the segments joined by dots.
RECURSIVE Dotted(_)
Dotted(segments) ==
  LET head == IF Head(segments) = "" THEN <<>> ELSE <<Head(segments)>>
  IN IF Len(segments) = 1 THEN head ELSE head \o <<".">> \o Dotted(Tail(segments))

SetDiff(segments, to) == EditDiff(Dotted(segments), JNull, to, NoDel)
DelDiff(segments) == EditDiff(Dotted(segments), JNull, JNull, Some(TRUE))

POLLUTED == JObj(MapInsert(EmptyMap, "__proto__", JObj(MapInsert(EmptyMap, "polluted", JBool(TRUE)))))

ReconDiffLists ==
  {<<SetDiff(<<"x">>, JNum(1)), SetDiff(<<"y">>, JNum(10))>>,
   <<SetDiff(<<"x">>, JNum(2))>>,
   <<SetDiff(<<"y">>, JNum(20))>>,
   <<DelDiff(<<"x">>)>>,
   <<SetDiff(<<"x">>, JNull), DelDiff(<<"a", "b">>)>>,
   <<SetDiff(<<"a", "b">>, JStr("deep")), SetDiff(<<"x", "c">>, JNum(5))>>,
   <<SetDiff(<<"y">>, JNum(20)), SetDiff(<<"__proto__", "polluted">>, JBool(TRUE))>>,
   <<DelDiff(<<"a", "constructor">>)>>,
   <<SetDiff(<<"prototype">>, JNum(1))>>,
   <<SetDiff(<<"a">>, POLLUTED)>>}

SegmentLists ==
  {<<"x">>, <<"y">>, <<"a">>, <<"a", "b">>, <<"x", "c">>, <<"__proto__", "polluted">>,
   <<"a", "constructor">>, <<"prototype">>}

\* The segments of a path of the diff lists above.
SegmentsOf(path) == CHOOSE segments \in SegmentLists : Dotted(segments) = path

AppendEntry(diffs) ==
  /\ ch.stage = "recording"
  /\ Len(ch.entries) < MaxReconLen
  /\ \E r \in {sign_edit_entry(SigningKey("alice"), export_public_key_jwk(SigningKey("alice")),
                               COLLECTION, RECORD_ID, encode_did_key(SigningKey("alice")).val,
                               FIRST_TIMESTAMP, diffs,
                               IF ch.entries = <<>> THEN None
                               ELSE Some(ch.entries[Len(ch.entries)]), TRUE)} :
       /\ r.ok
       /\ ch' = [ch EXCEPT !.entries = Append(@, r.val)]
  /\ UNCHANGED <<enc, dec, wire, last, dk, rw, mb>>

ReconstructState(up_to_index) ==
  /\ ch.stage = "recording"
  /\ ch' = [stage |-> "reconstructed", entries |-> ch.entries, up_to_index |-> up_to_index,
            res |-> reconstruct_state(ch.entries, up_to_index)]
  /\ UNCHANGED <<enc, dec, wire, last, dk, rw, mb>>

InitRecon ==
  /\ ch = [stage |-> "recording", entries |-> <<>>]
  /\ enc = Parked /\ dec = Parked /\ wire = NoWire /\ last = Idle
  /\ dk = Parked /\ rw = Parked /\ mb = Parked

NextRecon ==
  \/ \E diffs \in ReconDiffLists : AppendEntry(diffs)
  \/ \E up_to_index \in 0..MaxReconLen : ReconstructState(up_to_index)

SpecRecon == InitRecon /\ [][NextRecon]_vars

Reconstructed == ch.stage = "reconstructed"

\* The diffs of the first n entries, in order.
RECURSIVE DiffsOfFirst(_, _)
DiffsOfFirst(entries, n) == IF n = 0 THEN <<>> ELSE DiffsOfFirst(entries, n - 1) \o entries[n].d

\* The last entry that a reconstruction up to index k reads, counted from 1.
LastRead(entries, k) == Min(k + 1, Len(entries))

HasBannedSegment(d) ==
  \E i \in DOMAIN SegmentsOf(d.path) : SegmentsOf(d.path)[i] \in {"__proto__", "constructor", "prototype"}

SafeDiffs(diffs) == \A i \in DOMAIN diffs : ~HasBannedSegment(diffs[i])

\* The document as a map, with the key at the end of `segments` set to value
\* (keep) or removed (~keep); every segment on the way that is missing or no
\* object becomes a new object.
RECURSIVE Updated(_, _, _, _)
Updated(doc, segments, keep, value) ==
  LET key == segments[1]
      rest == SubSeq(segments, 2, Len(segments))
      inner == IF key \in DOMAIN doc /\ doc[key].t = "obj" THEN doc[key].o ELSE EmptyMap
  IN [k \in (IF Len(segments) = 1 /\ ~keep THEN DOMAIN doc \ {key} ELSE DOMAIN doc \cup {key}) |->
        IF k # key THEN doc[k]
        ELSE IF Len(segments) = 1 THEN value
        ELSE JObj(Updated(inner, rest, keep, value))]

RECURSIVE Folded(_, _)
Folded(diffs, n) ==
  IF n = 0 THEN EmptyMap
  ELSE Updated(Folded(diffs, n - 1), SegmentsOf(diffs[n].path),
               diffs[n].del # Some(TRUE), diffs[n].to)

\* Whether the document has a value at the end of `segments`, and that value.
RECURSIVE Present(_, _)
Present(value, segments) ==
  IF segments = <<>> THEN TRUE
  ELSE /\ value.t = "obj"
       /\ Head(segments) \in DOMAIN value.o
       /\ Present(value.o[Head(segments)], Tail(segments))

RECURSIVE ValueAt(_, _)
ValueAt(value, segments) ==
  IF segments = <<>> THEN value ELSE ValueAt(value.o[Head(segments)], Tail(segments))

\* C13: for k < len(entries) and diffs without banned segments,
\* reconstruct_state(entries, k) is the empty document with every diff of
\* entries 0..=k applied in order: a diff with del = true removes the key at
\* its path, any other diff sets the path to its `to` (null included), and
\* missing or non-object values on the way are replaced by new objects.  After
\* the last diff the document has its `to` at its path, or no key there when
\* the diff deletes.
C13_ReconstructionFolds ==
  (/\ Reconstructed
   /\ ch.up_to_index < Len(ch.entries)
   /\ SafeDiffs(DiffsOfFirst(ch.entries, ch.up_to_index + 1))) =>
    LET diffs == DiffsOfFirst(ch.entries, ch.up_to_index + 1)
        d == diffs[Len(diffs)]
    IN /\ ch.res.ok
       /\ ch.res.val = JObj(Folded(diffs, Len(diffs)))
       /\ IF d.del = Some(TRUE) THEN ~Present(ch.res.val, SegmentsOf(d.path))
          ELSE /\ Present(ch.res.val, SegmentsOf(d.path))
               /\ ValueAt(ch.res.val, SegmentsOf(d.path)) = d.to

\* Three entries reconstructed in full: x was set, then set to null with a.b
\* deleted, then deleted: the document keeps y, has the empty object a, no x.
C13_Witness ==
  /\ Reconstructed
  /\ Len(ch.entries) = 3 /\ ch.up_to_index = 2
  /\ ch.entries[2].d = <<SetDiff(<<"x">>, JNull), DelDiff(<<"a", "b">>)>>
  /\ ch.entries[3].d = <<DelDiff(<<"x">>)>>
  /\ ch.res.ok
  /\ ch.res.val = JObj([k \in {"a", "y"} |-> IF k = "a" THEN JObj(EmptyMap) ELSE JNum(10)])

\* The key paths of a value: for every key at any depth, the keys leading to it.
RECURSIVE KeyPaths(_)
KeyPaths(value) ==
  IF value.t # "obj" THEN {}
  ELSE UNION {{<<k>>} \cup {<<k>> \o q : q \in KeyPaths(value.o[k])} : k \in DOMAIN value.o}

IsPrefix(p, q) == Len(p) <= Len(q) /\ SubSeq(q, 1, Len(p)) = p

\* C14: reconstruct_state fails with DangerousPathSegment whenever a diff, set
\* or delete, among the entries it reads has the segment __proto__,
\* constructor or prototype at any position of its path; a document it returns
\* has a key of such a name only inside a value that a diff stored as its
\* `to`, never as a key named by a path segment.
C14_DangerousSegmentsRefused ==
  Reconstructed =>
    LET diffs == DiffsOfFirst(ch.entries, LastRead(ch.entries, ch.up_to_index))
    IN /\ ~SafeDiffs(diffs) => (~ch.res.ok /\ ch.res.err = "DangerousPathSegment")
       /\ ch.res.ok =>
            \A q \in KeyPaths(ch.res.val) :
              q[Len(q)] \in {"__proto__", "constructor", "prototype"} =>
                \E i \in DOMAIN diffs :
                  /\ Len(SegmentsOf(diffs[i].path)) < Len(q)
                  /\ IsPrefix(SegmentsOf(diffs[i].path), q)
                  /\ Present(diffs[i].to, SubSeq(q, Len(SegmentsOf(diffs[i].path)) + 1, Len(q)))

\* A delete of a.constructor in the second of two entries makes the
\* reconstruction up to it fail.
C14_Witness ==
  /\ Reconstructed
  /\ Len(ch.entries) = 2 /\ ch.up_to_index = 1
  /\ SafeDiffs(ch.entries[1].d)
  /\ ch.entries[2].d = <<DelDiff(<<"a", "constructor">>)>>
  /\ ~ch.res.ok /\ ch.res.err = "DangerousPathSegment"

-----------------------------------------------------------------------------
(* value_diff *)

RECURSIVE value_diff(_, _, _)
RECURSIVE DiffKeysFrom(_, _, _, _, _)

\* The loop of value_diff over all_keys from position i.
DiffKeysFrom(old_obj, new_obj, prefix, all_keys, i) ==
  IF i > Len(all_keys) THEN <<>>
  ELSE
    LET key == all_keys[i]
        token == KeyTokens(key)
        path == IF prefix.some THEN prefix.val \o <<".">> \o token ELSE token
        old_val == IF key \in DOMAIN old_obj THEN old_obj[key] ELSE JNull
        is_deleted == key \notin DOMAIN new_obj
        new_v == IF is_deleted THEN JNull ELSE new_obj[key]
        rest == DiffKeysFrom(old_obj, new_obj, prefix, all_keys, i + 1)
    IN IF old_val = new_v /\ ~is_deleted THEN rest
       ELSE IF old_val.t = "obj" /\ new_v.t = "obj"
         THEN value_diff(old_val, new_v, Some(path)) \o rest
       ELSE IF canonical_json_value(old_val) # canonical_json_value(new_v) \/ is_deleted
         THEN <<EditDiff(path,
                         IF key \in DOMAIN old_obj THEN old_val ELSE JNull,
                         IF is_deleted THEN JNull ELSE new_v,
                         IF is_deleted THEN Some(TRUE) ELSE NoDel)>> \o rest
       ELSE rest

value_diff(old_view, new_view, prefix) ==
  IF old_view.t # "obj" THEN <<>>
  ELSE IF new_view.t # "obj" THEN <<>>
  ELSE DiffKeysFrom(old_view.o, new_view.o, prefix,
                    SortKeys(DOMAIN old_view.o \cup DOMAIN new_view.o), 1)

-----------------------------------------------------------------------------
(* Specification of diffing: value_diff is called on two object documents    *)
(* with keys a and b.                                                        *)

ValuesOfA ==
  {JNull, JNum(1), JNum(2), JArr(<<JNum(1)>>), JArr(<<JNum(2)>>), JObj(EmptyMap),
   JObj(MapInsert(EmptyMap, "c", JNum(1))), JObj(MapInsert(EmptyMap, "c", JNull))}

ValuesOfB == {JNull, JNum(1)}

Documents ==
  {JObj(EmptyMap)}
    \cup {JObj(MapInsert(EmptyMap, "a", va)) : va \in ValuesOfA}
    \cup {JObj(MapInsert(EmptyMap, "b", vb)) : vb \in ValuesOfB}
    \cup {JObj(MapInsert(MapInsert(EmptyMap, "a", va), "b", vb)) : va \in ValuesOfA, vb \in ValuesOfB}

ValueDiff ==
  /\ ch.stage = "viewing"
  /\ ch' = [stage |-> "diffed", old |-> ch.old, new |-> ch.new,
            diffs |-> value_diff(ch.old, ch.new, None)]
  /\ UNCHANGED <<enc, dec, wire, last, dk, rw, mb>>

InitDiff ==
  /\ \E old \in Documents, new \in Documents : ch = [stage |-> "viewing", old |-> old, new |-> new]
  /\ enc = Parked /\ dec = Parked /\ wire = NoWire /\ last = Idle
  /\ dk = Parked /\ rw = Parked /\ mb = Parked

NextDiff == ValueDiff

SpecDiff == InitDiff /\ [][NextDiff]_vars

Diffed == ch.stage = "diffed"

\* The diffs that the description of value_diff asks for, for the keys of two
\* objects: a del diff for a key of old that new lacks, the diffs of the two
\* values when both are objects, a plain diff for any other key that new adds
\* or changes (unless skip_added_null and the key is added with value null),
\* and nothing for a key whose value is unchanged.
RECURSIVE DiffsAskedFor(_, _, _, _)
DiffsAskedFor(old_obj, new_obj, segments, skip_added_null) ==
  UNION {
    LET at == Append(segments, k) IN
    IF k \notin DOMAIN new_obj
      THEN {EditDiff(Dotted(at), old_obj[k], JNull, Some(TRUE))}
    ELSE IF k \in DOMAIN old_obj /\ old_obj[k] = new_obj[k] THEN {}
    ELSE IF k \in DOMAIN old_obj /\ old_obj[k].t = "obj" /\ new_obj[k].t = "obj"
      THEN DiffsAskedFor(old_obj[k].o, new_obj[k].o, at, skip_added_null)
    ELSE IF skip_added_null /\ k \notin DOMAIN old_obj /\ new_obj[k] = JNull THEN {}
    ELSE {EditDiff(Dotted(at), IF k \in DOMAIN old_obj THEN old_obj[k] ELSE JNull,
                   new_obj[k], NoDel)}
    : k \in DOMAIN old_obj \cup DOMAIN new_obj}

Emitted == {ch.diffs[i] : i \in DOMAIN ch.diffs}

\* C15: value_diff(old, new) emits {path, from, to} for every key changed or
\* added (recursing only when both values are plain objects), {path, from,
\* to: null, del: true} for every key of old absent from new, nothing for an
\* unchanged key, and a diff without del for a key set to null.
C15_DiffsEmitted ==
  Diffed =>
    /\ Emitted = DiffsAskedFor(ch.old.o, ch.new.o, <<>>, FALSE)
    /\ Len(ch.diffs) = Cardinality(Emitted)

\* The same with the keys that new adds with value null left out: for them
\* value_diff emits nothing.
C15_DiffsEmittedButAddedNull ==
  Diffed =>
    /\ Emitted = DiffsAskedFor(ch.old.o, ch.new.o, <<>>, TRUE)
    /\ Len(ch.diffs) = Cardinality(Emitted)

\* The key a, absent from old, is added with value null, and no diff is emitted.
C15_Witness ==
  /\ Diffed
  /\ ch.old = JObj(EmptyMap)
  /\ ch.new = JObj(MapInsert(EmptyMap, "a", JNull))
  /\ ch.diffs = <<>>

-----------------------------------------------------------------------------
(* Further properties of re-wrapping *)

\* C16: every call of rewrap_deks with new_epoch <= current_epoch fails with
\* InvalidEpochAdvance and returns no re-wrapped DEK, whatever the pairs and
\* the keys.
C16_OnlyForward ==
  (Rewrapped /\ rw.new_epoch <= rw.current_epoch) =>
    /\ ~rw.res.ok
    /\ rw.res.err = "InvalidEpochAdvance"
    /\ rw.res.val = "none"

\* rewrap_deks was called with new_epoch = current_epoch on a stored DEK of an
\* earlier epoch, and with new_epoch < current_epoch, and refused.
C16_Witness ==
  /\ Rewrapped
  /\ rw.new_epoch <= rw.current_epoch
  /\ Len(rw.stored) > 0
  /\ \E i \in DOMAIN rw.stored : rw.stored[i].epoch # rw.new_epoch
  /\ rw.res = Err("InvalidEpochAdvance")

-----------------------------------------------------------------------------
(* Membership payload encryption *)

\* u32::to_string: the decimal digits, as ASCII bytes.
RECURSIVE to_string(_)
to_string(n) == IF n < 10 THEN <<48 + n>> ELSE to_string(n \div 10) \o <<48 + (n % 10)>>

\* String::from_utf8 on bytes of the ASCII range and above: a byte of 128 or
\* more that starts no valid sequence is refused.
from_utf8(bytes) ==
  IF \A i \in DOMAIN bytes : bytes[i] < 128 THEN Ok(bytes)
  ELSE Err("InvalidMembershipEntry")

\* encrypt_membership_payload; iv is the value generate_iv() returned.
encrypt_membership_payload(payload, key, space_id, seq, iv) ==
  encrypt_v4(payload, key, Some(Context(space_id, to_string(seq))), iv)

decrypt_membership_payload(encrypted, key, space_id, seq) ==
  LET Decrypted(plaintext) ==
        IF ~plaintext.ok THEN Err(plaintext.err) ELSE from_utf8(plaintext.val)
  IN Decrypted(decrypt_v4(encrypted, key, Some(Context(space_id, to_string(seq)))))

-----------------------------------------------------------------------------
(* Specification of the membership log payload: a payload is encrypted for a *)
(* space and a sequence number and decrypted for a space and a sequence      *)
(* number.                                                                   *)

\* "s" and "s1": with sequence numbers 11 and 1 the two strings of a context
\* concatenate to the same bytes.
SPACE_S == <<115>>
SPACE_S1 == <<115, 49>>
LogSpaces == {SPACE_S, SPACE_S1}
SeqNumbers == {0, 1, 11}
Payloads == {<<123, 125>>, <<116, 101, 115, 116>>}

EncryptMembershipPayload(payload, key, space_id, seq) ==
  /\ mb.stage = "plain"
  /\ \E r \in {encrypt_membership_payload(payload, key, space_id, seq, IV1)} :
       /\ r.ok
       /\ mb' = [stage |-> "encrypted", payload |-> payload, key |-> key,
                 space_id |-> space_id, seq |-> seq, encrypted |-> r.val]
  /\ UNCHANGED <<enc, dec, wire, last, dk, rw, ch>>

DecryptMembershipPayload(key, space_id, seq) ==
  /\ mb.stage = "encrypted"
  /\ mb' = [stage |-> "decrypted", payload |-> mb.payload, key |-> mb.key,
            space_id |-> mb.space_id, seq |-> mb.seq, encrypted |-> mb.encrypted,
            with_key |-> key, as_space_id |-> space_id, as_seq |-> seq,
            res |-> decrypt_membership_payload(mb.encrypted, key, space_id, seq)]
  /\ UNCHANGED <<enc, dec, wire, last, dk, rw, ch>>

InitPayload ==
  /\ mb = [stage |-> "plain"]
  /\ enc = Parked /\ dec = Parked /\ wire = NoWire /\ last = Idle
  /\ dk = Parked /\ rw = Parked /\ ch = Parked

NextPayload ==
  \/ \E payload \in Payloads, key \in {K1, SHORT_KEY}, space_id \in LogSpaces, seq \in SeqNumbers :
       EncryptMembershipPayload(payload, key, space_id, seq)
  \/ \E key \in {K1, K2}, space_id \in LogSpaces, seq \in SeqNumbers :
       DecryptMembershipPayload(key, space_id, seq)

SpecPayload == InitPayload /\ [][NextPayload]_vars

\* C17: decrypt_membership_payload of an encrypted payload, under the key it
\* was encrypted with, returns the payload when called with the space id and
\* sequence number of the encryption, and fails for every other pair.
C17_PayloadBoundToSpaceAndSeq ==
  (mb.stage = "decrypted" /\ mb.with_key = mb.key) =>
    IF mb.as_space_id = mb.space_id /\ mb.as_seq = mb.seq
      THEN mb.res.ok /\ mb.res.val = mb.payload
      ELSE ~mb.res.ok

\* A payload encrypted for ("s", 11) is refused for ("s1", 1) under the same key.
C17_Witness ==
  /\ mb.stage = "decrypted"
  /\ mb.with_key = mb.key
  /\ mb.space_id = SPACE_S /\ mb.seq = 11
  /\ mb.as_space_id = SPACE_S1 /\ mb.as_seq = 1
  /\ ~mb.res.ok

-----------------------------------------------------------------------------
(* Specification of integrity failures: the writer pushes a pair, the relay  *)
(* may alter the wrapped DEK's ciphertext or the blob, and a reader holding  *)
(* the writer's key or another key decrypts under either record id.          *)

\* The first and the last bit of the AES-KW ciphertext (bytes 4..43).
CiphertextBits == {8 * 4, 8 * WRAPPED_DEK_SIZE - 1}

TamperWrappedDek(pos) ==
  /\ wire.kind = "pair"
  /\ wire.wrapped_dek.kw.flips = {}
  /\ wire' = [wire EXCEPT !.wrapped_dek = FlipBit(@, pos)]
  /\ last' = [op |-> "tamper"]
  /\ UNCHANGED <<enc, dec, dk, rw, ch, mb>>

TamperBlob ==
  /\ wire.kind = "pair"
  /\ wire.blob.ct.intact
  /\ wire' = [wire EXCEPT !.blob.ct.intact = FALSE]
  /\ last' = [op |-> "tamper"]
  /\ UNCHANGED <<enc, dec, dk, rw, ch, mb>>

InitIntegrity ==
  /\ enc = NewCache(K1, BaseEpoch, SPACE_A)
  /\ dec \in {NewCache(K1, BaseEpoch, SPACE_A), NewCache(K2, BaseEpoch, SPACE_A)}
  /\ wire = NoWire
  /\ last = Idle
  /\ dk = Parked /\ rw = Parked /\ ch = Parked /\ mb = Parked

NextIntegrity ==
  \/ \E envelope \in Envelopes, rid \in RecordIds :
       EncryptOutbound(envelope, rid, DEFAULT_PADDING_BUCKETS, DEK1, IV1)
  \/ \E pos \in CiphertextBits : TamperWrappedDek(pos)
  \/ TamperBlob
  \/ \E rid \in RecordIds : DecryptInbound("dec", rid, wire.padding_buckets)

SpecIntegrity == InitIntegrity /\ [][NextIntegrity]_vars

\* The causes of failure that apply to the last decrypt_inbound.
CausesNow ==
  {c \in {"wrong epoch key", "tampered wrapped DEK", "tampered blob", "mismatching record_id"} :
     \/ c = "wrong epoch key" /\ dec.base_key # enc.base_key
     \/ c = "tampered wrapped DEK" /\ wire.wrapped_dek.kw.flips # {}
     \/ c = "tampered blob" /\ ~wire.blob.ct.intact
     \/ c = "mismatching record_id" /\ last.record_id # wire.record_id}

DecryptedPair == wire.kind = "pair" /\ last.op = "decrypt_inbound"

\* What decrypt_inbound returns for the pair as the writer pushed it when
\* exactly the given cause applies.
OutcomeOf(cause) ==
  LET pushed == [wire EXCEPT !.wrapped_dek.kw.flips = {}, !.blob.ct.intact = TRUE]
      other_id == CHOOSE rid \in RecordIds : rid # wire.record_id
  IN decrypt_inbound(
       IF cause = "tampered blob" THEN [pushed.blob EXCEPT !.ct.intact = FALSE] ELSE pushed.blob,
       IF cause = "tampered wrapped DEK" THEN FlipBit(pushed.wrapped_dek, 8 * 4)
       ELSE pushed.wrapped_dek,
       IF cause = "mismatching record_id" THEN other_id ELSE wire.record_id,
       IF cause = "wrong epoch key" THEN NewCache(K2, BaseEpoch, SPACE_A) ELSE enc,
       wire.padding_buckets).res

\* C18: decrypt_inbound returns one and the same error whether it fails for a
\* wrong epoch key, a tampered wrapped DEK, a tampered blob or a mismatching
\* record_id: a run that fails for one of the causes returns the error value
\* that the run with any other of the causes returns.
C18_OneErrorOutcome ==
  (DecryptedPair /\ Cardinality(CausesNow) = 1) =>
    /\ ~last.res.ok
    /\ \A cause \in {"wrong epoch key", "tampered wrapped DEK", "tampered blob",
                     "mismatching record_id"} :
         OutcomeOf(cause) = last.res

\* What holds: every such run fails; a wrong epoch key and a tampered wrapped
\* DEK give UnwrapFailed, a tampered blob and a mismatching record_id give
\* DecryptionFailed.
C18_TwoErrorOutcomes ==
  (DecryptedPair /\ CausesNow # {}) =>
    /\ ~last.res.ok
    /\ last.res.err =
         IF CausesNow \cap {"wrong epoch key", "tampered wrapped DEK"} # {}
         THEN "UnwrapFailed" ELSE "DecryptionFailed"

\* A reader with another key fails on an untouched pair with UnwrapFailed,
\* while the same pair with a tampered blob gives DecryptionFailed.
C18_Witness ==
  /\ DecryptedPair
  /\ CausesNow = {"wrong epoch key"}
  /\ last.res = Err("UnwrapFailed")
  /\ OutcomeOf("tampered blob") = Err("DecryptionFailed")

-----------------------------------------------------------------------------
(* Zeroization in re-wrapping *)

\* C19: on every return from rewrap_deks, successful or failing, every key it
\* derived for the epochs current_epoch+1..=new_epoch has been overwritten
\* with zeros.
C19_DerivedKeysZeroed ==
  Rewrapped => \A i \in DOMAIN rw.buffers : rw.buffers[i].zeroed

\* What holds: on a successful return every key in key_cache for an epoch
\* other than current_epoch, and the last value of derived_key, are zeroed; on
\* a return with InvalidEpochAdvance no key was derived.
C19_ZeroedOnSuccess ==
  Rewrapped =>
    /\ rw.res.ok =>
         \A i \in DOMAIN rw.buffers :
           (rw.buffers[i].owner = "key_cache" \/ rw.buffers[i].epoch = rw.new_epoch)
             => rw.buffers[i].zeroed
    /\ rw.new_epoch <= rw.current_epoch => rw.buffers = <<>>
    /\ rw.new_epoch > rw.current_epoch =>
         {rw.buffers[i].epoch : i \in DOMAIN rw.buffers} = (rw.current_epoch + 1) .. rw.new_epoch

\* rewrap_deks returned UnwrapFailed for a DEK wrapped under a foreign key, and
\* the key of new_epoch in key_cache was left as it is.
C19_Witness ==
  /\ Rewrapped
  /\ rw.res = Err("UnwrapFailed")
  /\ \E i \in DOMAIN rw.buffers :
       /\ rw.buffers[i].owner = "key_cache"
       /\ rw.buffers[i].epoch = rw.new_epoch
       /\ rw.buffers[i].key = RewrapChainKey(rw.new_epoch)
       /\ ~rw.buffers[i].zeroed

-----------------------------------------------------------------------------
(* Specification of padding: pad_to_bucket is called on data of up to        *)
(* MaxDataLen bytes, and on data that fills or just overflows the first      *)
(* default bucket, with several bucket lists.                                *)

MaxDataLen == 13

\* n bytes of value 7.
Sevens(n) == [i \in 1 .. n |-> 7]

PadData ==
  {Sevens(n) : n \in 0 .. MaxDataLen}
    \cup {Sevens(n) \o <<0>> : n \in 0 .. (MaxDataLen - 1)}
    \cup {Sevens(248), Sevens(252), Sevens(253)}

\* Ascending lists, the empty list and a descending list.
PadBucketLists == {<<8>>, <<8, 16>>, <<6, 6, 12>>, <<4, 17>>, DEFAULT_PADDING_BUCKETS, <<>>, <<16, 8>>}

\* Bytes as a receiver may get them: too short for a prefix, a prefix that
\* claims what is there exactly, less than is there, or more than is there.
ReceivedData ==
  {<<1>>, <<1, 0, 0>>, <<0, 0, 0, 0>>, <<3, 0, 0, 0, 9, 8, 7, 0, 0>>, <<4, 0, 0, 0, 9, 8, 7, 6>>,
   <<5, 0, 0, 0, 9, 8, 7, 6>>, <<0, 1, 0, 0, 9>>, <<255, 255, 255, 127, 1>>}

\* unpad is called on the bytes as they are, or on what pad_to_bucket returned.
Unpad ==
  /\ last.op \in {"to_pad", "pad_to_bucket"}
  /\ last.op = "pad_to_bucket" => last.res.ok
  /\ \E input \in {IF last.op = "to_pad" THEN last.data ELSE last.res.val} :
       last' = [op |-> "unpad", data |-> last.data, buckets |-> last.buckets,
                input |-> input, padded |-> last.op = "pad_to_bucket",
                res |-> unpad(input, last.buckets)]
  /\ UNCHANGED <<enc, dec, wire, dk, rw, ch, mb>>

PadToBucket ==
  /\ last.op = "to_pad"
  /\ last' = [op |-> "pad_to_bucket", data |-> last.data, buckets |-> last.buckets,
              res |-> pad_to_bucket(last.data, last.buckets)]
  /\ UNCHANGED <<enc, dec, wire, dk, rw, ch, mb>>

InitPad ==
  /\ \E data \in PadData \cup ReceivedData, buckets \in PadBucketLists :
       last = [op |-> "to_pad", data |-> data, buckets |-> buckets]
  /\ enc = Parked /\ dec = Parked /\ wire = NoWire
  /\ dk = Parked /\ rw = Parked /\ ch = Parked /\ mb = Parked

NextPad == PadToBucket \/ Unpad

SpecPad == InitPad /\ [][NextPad]_vars

Padded == last.op = "pad_to_bucket"

NonEmptyAscending(buckets) ==
  /\ buckets # <<>>
  /\ \A i \in 1 .. (Len(buckets) - 1) : buckets[i] <= buckets[i + 1]

\* C20: with a non-empty ascending bucket list pad_to_bucket returns a buffer
\* of the length of the smallest bucket >= 4 + len(data): len(data) as four
\* little-endian bytes, then data, then zero bytes only; it fails with
\* PaddingError when no bucket is >= 4 + len(data).
C20_PaddedToSmallestBucket ==
  (Padded /\ NonEmptyAscending(last.buckets)) =>
    LET n == Len(last.data)
    IN IF \A i \in DOMAIN last.buckets : last.buckets[i] < 4 + n
       THEN ~last.res.ok /\ last.res.err = "PaddingError"
       ELSE /\ last.res.ok
            /\ \E i \in DOMAIN last.buckets :
                 /\ last.buckets[i] = Len(last.res.val)
                 /\ last.buckets[i] >= 4 + n
                 /\ \A j \in DOMAIN last.buckets :
                      last.buckets[j] >= 4 + n => last.buckets[i] <= last.buckets[j]
            /\ last.res.val[1] = n % 256
            /\ last.res.val[2] = (n \div 256) % 256
            /\ last.res.val[3] = (n \div 65536) % 256
            /\ last.res.val[4] = n \div 16777216
            /\ SubSeq(last.res.val, 5, 4 + n) = last.data
            /\ \A k \in (5 + n) .. Len(last.res.val) : last.res.val[k] = 0

\* 252 bytes of data with the default buckets: 256 bytes in total, padded to
\* the 256-byte bucket with no zero byte added.
C20_Witness ==
  /\ Padded
  /\ last.buckets = DEFAULT_PADDING_BUCKETS
  /\ Len(last.data) = 252
  /\ last.res.ok
  /\ Len(last.res.val) = 256
  /\ last.res.val[1] = 252

-----------------------------------------------------------------------------
(* Further properties of padding *)

Unpadded == last.op = "unpad"

\* C21: whenever pad_to_bucket succeeds, unpad of its result under the same
\* bucket list is the data; with an empty list pad_to_bucket and unpad both
\* return their input.
C21_PadUnpadRoundTrip ==
  /\ (Unpadded /\ last.padded) => (last.res.ok /\ last.res.val = last.data)
  /\ (Unpadded /\ last.buckets = <<>>) => (last.res.ok /\ last.res.val = last.input)
  /\ (Padded /\ last.buckets = <<>>) => (last.res.ok /\ last.res.val = last.data)

\* Empty data padded to 8 bytes and unpadded to empty data again.
C21_Witness ==
  /\ Unpadded /\ last.padded
  /\ last.data = <<>>
  /\ last.buckets = <<8>>
  /\ Len(last.input) = 8
  /\ last.res = Ok(<<>>)

\* The length that the first four bytes claim, little-endian.
ClaimedLength(input) == input[1] + 256 * input[2] + 65536 * input[3] + 16777216 * input[4]

\* C22: with a non-empty bucket list unpad fails with PaddingError when the
\* input has fewer than 4 bytes or its prefix claims more than len(input) - 4
\* bytes, and otherwise returns exactly the claimed number of bytes that
\* follow the prefix.
C22_UnpadStaysInside ==
  (Unpadded /\ last.buckets # <<>>) =>
    IF Len(last.input) < 4 THEN ~last.res.ok /\ last.res.err = "PaddingError"
    ELSE IF ClaimedLength(last.input) > Len(last.input) - 4
      THEN ~last.res.ok /\ last.res.err = "PaddingError"
    ELSE /\ last.res.ok
         /\ Len(last.res.val) = ClaimedLength(last.input)
         /\ \A i \in 1 .. ClaimedLength(last.input) : last.res.val[i] = last.input[4 + i]

\* Received bytes whose prefix claims 5 bytes where 4 follow are refused, and
\* bytes whose prefix claims the 4 that follow are returned.
C22_Witness ==
  /\ Unpadded /\ ~last.padded
  /\ last.buckets # <<>>
  /\ \/ last.input = <<5, 0, 0, 0, 9, 8, 7, 6>> /\ last.res = Err("PaddingError")
     \/ last.input = <<1, 0, 0>> /\ last.res = Err("PaddingError")
  /\ unpad(<<4, 0, 0, 0, 9, 8, 7, 6>>, last.buckets) = Ok(<<9, 8, 7, 6>>)

-----------------------------------------------------------------------------
(* Specification of the timestamp clamp: one call of sign_edit_entry with a  *)
(* timestamp, on top of no entry or of an entry with a given t, in a build   *)
(* with or without arithmetic overflow checks.                               *)

ClampTimestamps == {0, 1, FIRST_TIMESTAMP - 1, FIRST_TIMESTAMP, FIRST_TIMESTAMP + 1, LATER_TIMESTAMP, U64_MAX - 1, U64_MAX}

\* A first entry by alice with the given t.
EntryAt(t) ==
  sign_edit_entry(SigningKey("alice"), export_public_key_jwk(SigningKey("alice")),
                  COLLECTION, RECORD_ID, encode_did_key(SigningKey("alice")).val,
                  t, <<D_NAME>>, None, TRUE).val

SignOnTop(overflow_checks) ==
  /\ last.op = "to_sign"
  /\ last' = [op |-> "sign_edit_entry", timestamp |-> last.timestamp, prev |-> last.prev,
              overflow_checks |-> overflow_checks,
              res |-> sign_edit_entry(SigningKey("alice"),
                                      export_public_key_jwk(SigningKey("alice")),
                                      COLLECTION, RECORD_ID,
                                      encode_did_key(SigningKey("alice")).val,
                                      last.timestamp, <<D_SCORE>>, last.prev, overflow_checks)]
  /\ UNCHANGED <<enc, dec, wire, dk, rw, ch, mb>>

InitClamp ==
  /\ \E timestamp \in ClampTimestamps, prev \in {None} \cup {Some(EntryAt(t)) : t \in ClampTimestamps} :
       last = [op |-> "to_sign", timestamp |-> timestamp, prev |-> prev]
  /\ enc = Parked /\ dec = Parked /\ wire = NoWire
  /\ dk = Parked /\ rw = Parked /\ ch = Parked /\ mb = Parked

NextClamp == \E overflow_checks \in BOOLEAN : SignOnTop(overflow_checks)

SpecClamp == InitClamp /\ [][NextClamp]_vars

SignedOnTop == last.op = "sign_edit_entry"

\* C23: for every timestamp t and every previous entry, prev.t = u64::MAX
\* included, sign_edit_entry returns an entry with entry.t = max(t, prev.t + 1),
\* the sum taken without overflow or wrap-around, and with entry.t = t when
\* there is no previous entry.  Above u64::MAX - 1 the sum is 2^64, which no
\* entry.t equals.
C23_TimestampClamp ==
  SignedOnTop =>
    /\ last.res.ok
    /\ IF ~last.prev.some THEN last.res.val.t = last.timestamp
       ELSE /\ last.prev.val.t # U64_MAX
            /\ last.res.val.t = U64Max(last.timestamp, last.prev.val.t + 1)

\* What holds: the clamp for every prev.t below u64::MAX; at u64::MAX the call
\* panics in a build with overflow checks and returns entry.t = max(t, 0) = t
\* in a build without.
C23_ClampBelowMax ==
  SignedOnTop =>
    IF ~last.prev.some THEN last.res.ok /\ last.res.val.t = last.timestamp
    ELSE IF last.prev.val.t # U64_MAX
      THEN /\ last.res.ok
           /\ last.res.val.t = U64Max(last.timestamp, last.prev.val.t + 1)
           /\ U64Less(last.prev.val.t, last.res.val.t)
    ELSE IF last.overflow_checks THEN ~last.res.ok
    ELSE last.res.ok /\ last.res.val.t = last.timestamp

\* On top of an entry with t = u64::MAX, a build without overflow checks
\* returns the supplied timestamp 1000.
C23_Witness ==
  /\ SignedOnTop
  /\ last.prev.some /\ last.prev.val.t = U64_MAX
  /\ ~last.overflow_checks
  /\ last.timestamp = FIRST_TIMESTAMP
  /\ last.res.ok /\ last.res.val.t = FIRST_TIMESTAMP

-----------------------------------------------------------------------------
(* Specification of the cache's call history: a cache built at epoch 0 or at *)
(* BaseEpoch, for either space, serves get_kek calls in any order and has    *)
(* its encryption epoch advanced.                                            *)

MaxCacheEpoch == 4

CacheEpochs == (0 .. MaxCacheEpoch) \cup {BaseEpoch + MAX_EPOCH_ADVANCE + 1}

InitCache ==
  /\ enc \in {NewCache(K1, b, sp) : b \in {0, BaseEpoch}, sp \in {SPACE_A, SPACE_B}}
  /\ wire = NoWire
  /\ last = Idle
  /\ dec = Parked /\ dk = Parked /\ rw = Parked /\ ch = Parked /\ mb = Parked

NextCache ==
  \/ \E e \in CacheEpochs : GetKek("enc", e)
  \/ \E e \in 0 .. MaxCacheEpoch : UpdateEncryptionEpoch("enc", e)

SpecCache == InitCache /\ [][NextCache]_vars

\* derive_next_epoch_key applied step by step from the key of epoch b for the
\* epochs b+1..=e.
RECURSIVE StepByStep(_, _, _, _)
StepByStep(key, space_id, b, e) ==
  IF e <= b THEN key
  ELSE derive_next_epoch_key(StepByStep(key, space_id, b, e - 1), space_id, e).val

\* C24: whatever get_kek calls came before, a successful get_kek(e) returns
\* base_key for e = base_epoch and otherwise the key obtained step by step with
\* derive_next_epoch_key for the epochs base_epoch+1..=e, which is the key
\* derive_forward gives and, for base epoch 0, derive_epoch_key_from_root; a
\* call for an epoch that is memoized returns the memoized key and derives
\* nothing, and no memoized key is ever replaced.
C24_CacheAgreesWithRatchet ==
  [][ (last'.op = "get_kek" /\ last'.res.ok) =>
        /\ last'.epoch = enc.base_epoch => last'.res.val = enc.base_key
        /\ last'.res.val = StepByStep(enc.base_key, enc.space_id, enc.base_epoch, last'.epoch)
        /\ derive_forward(enc.base_key, enc.space_id, enc.base_epoch, last'.epoch).ok
        /\ last'.res.val =
             derive_forward(enc.base_key, enc.space_id, enc.base_epoch, last'.epoch).val
        /\ enc.base_epoch = 0 =>
             /\ derive_epoch_key_from_root(enc.base_key, enc.space_id, last'.epoch).ok
             /\ last'.res.val =
                  derive_epoch_key_from_root(enc.base_key, enc.space_id, last'.epoch).val
        /\ last'.epoch \in DOMAIN enc.cache =>
             (last'.res.val = enc.cache[last'.epoch] /\ enc' = enc)
        /\ \A e \in DOMAIN enc.cache :
             e \in DOMAIN enc'.cache /\ enc'.cache[e] = enc.cache[e]
    ]_vars

\* A cache with base epoch 0 that has served epoch 4 serves epoch 3 afterwards.
C24_Witness ==
  /\ last.op = "get_kek"
  /\ last.res.ok
  /\ last.epoch = 3
  /\ enc.base_epoch = 0
  /\ DOMAIN enc.cache = 1 .. 4
  /\ last.res.val = StepByStep(K1, enc.space_id, 0, 3)

-----------------------------------------------------------------------------
(* Specification of the epoch prefix in transit: the writer pushes a pair    *)
(* wrapped under its current epoch, the relay rewrites the 4-byte prefix of  *)
(* the wrapped DEK or damages the blob, and a reader on the writer's chain    *)
(* or with another key decrypts.                                              *)

ClaimedEpochs ==
  (0 .. BaseEpoch + 2) \cup
    {BaseEpoch + MAX_EPOCH_ADVANCE + d : d \in 0 .. 2}

\* `wrapped_dek[..4].copy_from_slice(&e.to_be_bytes())` on the relay.
RewritePrefix(e) ==
  /\ wire.kind = "pair"
  /\ wire' = [wire EXCEPT !.wrapped_dek.pre = to_be_bytes(e)]
  /\ last' = [op |-> "tamper"]
  /\ UNCHANGED <<enc, dec, dk, rw, ch, mb>>

InitPrefix ==
  /\ enc = NewCache(K1, BaseEpoch, SPACE_A)
  /\ dec \in {NewCache(ChainKey(e), e, SPACE_A) : e \in BaseEpochs}
               \cup {NewCache(K2, BaseEpoch, SPACE_A)}
  /\ wire = NoWire
  /\ last = Idle
  /\ dk = Parked /\ rw = Parked /\ ch = Parked /\ mb = Parked

NextPrefix ==
  \/ \E e \in PipeEpochs : UpdateEncryptionEpoch("enc", e)
  \/ EncryptOutbound(ENVELOPE_1, RECORD_1, DEFAULT_PADDING_BUCKETS, DEK1, IV1)
  \/ \E e \in ClaimedEpochs : RewritePrefix(e)
  \/ TamperBlob
  \/ DecryptInbound("dec", RECORD_1, DEFAULT_PADDING_BUCKETS)

SpecPrefix == InitPrefix /\ [][NextPrefix]_vars

\* The epoch the prefix of the pair on the relay names.
ClaimedEpoch == from_be_bytes(wire.wrapped_dek.pre)

\* C25: when the 4-byte prefix of the wrapped DEK names an epoch other than
\* the one whose key wrapped it, decrypt_inbound returns no envelope: it fails
\* with BackwardDerivation for a claimed epoch below the reader's base epoch,
\* with EpochTooFarAhead for one more than MAX_EPOCH_ADVANCE above it, and
\* otherwise with the unwrap's integrity failure, whatever the state of the
\* blob (the blob is not yet looked at).
C25_PrefixNotTrusted ==
  (DecryptedPair /\ ClaimedEpoch # wire.epoch) =>
    /\ ~last.res.ok
    /\ last.res.err =
         IF ClaimedEpoch < dec.base_epoch THEN "BackwardDerivation"
         ELSE IF ClaimedEpoch - dec.base_epoch > MAX_EPOCH_ADVANCE THEN "EpochTooFarAhead"
         ELSE "UnwrapFailed"

\* A reader on the writer's chain is handed a pair of epoch BaseEpoch + 1 whose
\* prefix names BaseEpoch + 2, with the blob damaged as well, and fails at the
\* unwrap.
C25_Witness ==
  /\ DecryptedPair
  /\ wire.epoch = BaseEpoch + 1
  /\ ClaimedEpoch = BaseEpoch + 2
  /\ dec.base_key = K1
  /\ ~wire.blob.ct.intact
  /\ last.res = Err("UnwrapFailed")

-----------------------------------------------------------------------------
(* Specification of failing re-wraps: besides DEKs wrapped on the chain, the *)
(* relay holds DEKs wrapped under another key at any epoch label and         *)
(* truncated byte strings; rewrap_deks is called for every pair of epochs.   *)

TruncatedLengths == {0, 3, 4, WRAPPED_DEK_SIZE - 1}

\* `wrapped_dek[..n]`
Truncate(w, n) ==
  [pre |-> SubSeq(w.pre, 1, Min(n, 4)), kw |-> w.kw, kwlen |-> IF n > 4 THEN n - 4 ELSE 0]

\* A record's wrapped DEK is stored cut to n bytes.
StoreTruncated(id, kek, epoch, n) ==
  /\ rw.stage = "storing"
  /\ Len(rw.stored) < MaxPairs
  /\ rw' = [rw EXCEPT !.stored =
              Append(@, [id |-> id, dek |-> DekOf(id), kek |-> kek, epoch |-> epoch,
                         w |-> Truncate(wrap_dek(DekOf(id), kek, epoch).val, n)])]
  /\ UNCHANGED <<enc, dec, wire, last, dk, ch, mb>>

NextRewrapFail ==
  \/ \E id \in RecordNames, e \in RewrapEpochs : StoreDek(id, RewrapChainKey(e), e)
  \/ \E e \in RewrapEpochs : StoreDek("rec-b", K2, e)
  \/ \E e \in RewrapEpochs, n \in TruncatedLengths :
       StoreTruncated("rec-b", RewrapChainKey(e), e, n)
  \/ \E c \in RewrapEpochs, n \in RewrapEpochs :
       \E new_key \in {RewrapChainKey(n), K2} : RewrapDeks(c, new_key, n)

SpecRewrapFail == InitRewrap /\ [][NextRewrapFail]_vars

\* Why the loop of rewrap_deks stops at the stored pair p, "" when it does not.
OffenceOf(p) ==
  IF WrappedLen(p.w) < 4 THEN "MissingDek"
  ELSE IF p.epoch = rw.new_epoch THEN ""
  ELSE IF p.epoch < rw.current_epoch \/ p.epoch > rw.new_epoch THEN "NoKek"
  ELSE IF WrappedLen(p.w) # WRAPPED_DEK_SIZE THEN "InvalidWrappedDekLength"
  ELSE IF p.kek # RewrapChainKey(p.epoch) THEN "UnwrapFailed"
  ELSE ""

Offenders == {i \in DOMAIN rw.stored : OffenceOf(rw.stored[i]) # ""}

\* The chain was built and the target key is a 32-byte key.
ChainBuilt ==
  Rewrapped /\ rw.new_epoch > rw.current_epoch /\ rw.new_key.len = AES_KEY_LENGTH

\* C26 as stated: an input with a prefix outside [current_epoch, new_epoch]
\* makes the call fail with NoKek, an input shorter than 4 bytes makes it fail
\* with MissingDek, an input that does not unwrap under its chain key makes it
\* fail, and nothing is returned.
C26_AnyOffenderDecides ==
  ChainBuilt =>
    /\ (\E i \in DOMAIN rw.stored :
          /\ WrappedLen(rw.stored[i].w) >= 4
          /\ (rw.stored[i].epoch < rw.current_epoch \/ rw.stored[i].epoch > rw.new_epoch))
         => rw.res = Err("NoKek")
    /\ (\E i \in DOMAIN rw.stored : WrappedLen(rw.stored[i].w) < 4)
         => rw.res = Err("MissingDek")
    /\ (\E i \in DOMAIN rw.stored :
          /\ WrappedLen(rw.stored[i].w) >= 4
          /\ rw.stored[i].epoch >= rw.current_epoch /\ rw.stored[i].epoch <= rw.new_epoch
          /\ (\/ WrappedLen(rw.stored[i].w) # WRAPPED_DEK_SIZE
              \/ rw.stored[i].kek # RewrapChainKey(rw.stored[i].epoch)))
         => ~rw.res.ok

\* C26: rewrap_deks is all-or-nothing, and the error is that of the first pair,
\* in input order, at which the loop stops: MissingDek for an input shorter
\* than 4 bytes, otherwise nothing for an input labelled new_epoch (it is
\* passed over unread), NoKek for a prefix outside [current_epoch, new_epoch],
\* and the unwrap's error for an input that does not unwrap under its chain
\* key.  The error comes without any re-wrapped DEK.
C26_FirstOffenderDecides ==
  (ChainBuilt /\ Offenders # {}) =>
    LET first == CHOOSE i \in Offenders : \A j \in Offenders : i <= j
    IN rw.res = Err(OffenceOf(rw.stored[first]))

\* The first pair is re-wrappable, the second has a prefix below current_epoch:
\* the call fails with NoKek and returns nothing for the first.
C26_Witness ==
  /\ ChainBuilt
  /\ Len(rw.stored) = 2
  /\ OffenceOf(rw.stored[1]) = "" /\ rw.stored[1].epoch # rw.new_epoch
  /\ OffenceOf(rw.stored[2]) = "NoKek"
  /\ rw.res = Err("NoKek")

-----------------------------------------------------------------------------
(* Specification of record binding: an entry is signed for one collection   *)
(* and record id and verified for every other, among them strings that hold *)
(* a NUL character.                                                          *)

BindCollections == {COLLECTION, OTHER_COLLECTION, "a", COLLECTION_WITH_NUL}
BindRecordIds == {RECORD_ID, OTHER_RECORD_ID, "c", RECORD_ID_WITH_NUL}

NextBind ==
  \/ \E signer \in Authors, collection \in BindCollections, record_id \in BindRecordIds :
       SignOneEntry(signer, signer, collection, record_id)
  \/ \E collection \in BindCollections, record_id \in BindRecordIds :
       VerifyEditEntry(collection, record_id)

SpecBind == InitEntry /\ [][NextBind]_vars

NulFree(s) == split_nul(s) = <<s>>

\* C27: an entry signed for (collection, record_id) is accepted by
\* verify_edit_entry when called with that pair and refused when called with
\* any other pair of strings.
C27_BoundToRecord ==
  ch.stage = "verified" =>
    (ch.valid <=> (ch.as_collection = ch.collection /\ ch.as_record_id = ch.record_id))

\* What holds: the entry is accepted for its own pair, and refused for every
\* other pair when neither the strings it was signed for nor the strings it is
\* verified for hold a NUL character.
C27_BoundWithoutNul ==
  ch.stage = "verified" =>
    /\ (ch.as_collection = ch.collection /\ ch.as_record_id = ch.record_id) => ch.valid
    /\ (/\ NulFree(ch.collection) /\ NulFree(ch.record_id)
        /\ NulFree(ch.as_collection) /\ NulFree(ch.as_record_id)
        /\ ch.valid)
         => (ch.as_collection = ch.collection /\ ch.as_record_id = ch.record_id)

\* An entry signed for one record is refused for another record of the same
\* collection and for the same record id in another collection.
C27_Witness ==
  /\ ch.stage = "verified"
  /\ ch.collection = COLLECTION /\ ch.record_id = RECORD_ID
  /\ ch.as_collection = COLLECTION /\ ch.as_record_id = OTHER_RECORD_ID
  /\ ~ch.valid
  /\ ~verify_edit_entry(ch.entry, OTHER_COLLECTION, RECORD_ID)
  /\ verify_edit_entry(ch.entry, COLLECTION, RECORD_ID)

-----------------------------------------------------------------------------
(* Epochs of new writes *)

\* C28: a wrapped DEK returned by encrypt_outbound has as its prefix the
\* cache's current_epoch at the time of the call and is wrapped under the key
\* get_kek gives for that epoch; over any sequence of encrypt_outbound and
\* update_encryption_epoch calls on the cache the prefix of an output is not
\* below the prefix of the output before it.
C28_WritesUseCurrentEpoch ==
  [][ (last'.op = "encrypt_outbound" /\ last'.ok) =>
        /\ peek_epoch(wire'.wrapped_dek) = Ok(enc.current_epoch)
        /\ get_kek(enc, enc.current_epoch).res.ok
        /\ wire'.wrapped_dek.kw.kek = get_kek(enc, enc.current_epoch).res.val
        /\ Ok(wire'.wrapped_dek.kw.kek) =
             derive_forward(enc.base_key, enc.space_id, enc.base_epoch, enc.current_epoch)
        /\ wire.kind = "pair" =>
             from_be_bytes(wire.wrapped_dek.pre) <= from_be_bytes(wire'.wrapped_dek.pre)
    ]_vars

\* The cache was advanced past its base epoch and the pair pushed last is of
\* the advanced epoch.
C28_Witness ==
  /\ last.op = "encrypt_outbound" /\ last.ok
  /\ enc.current_epoch > enc.base_epoch
  /\ wire.kind = "pair"
  /\ peek_epoch(wire.wrapped_dek) = Ok(enc.current_epoch)

-----------------------------------------------------------------------------
(* Specification of the pipeline's use of the caches: the writer and the    *)
(* reader of the epoch prefix scenario, each also asked for KEKs directly.   *)

FrameEpochs == {BaseEpoch - 1, BaseEpoch + 1, BaseEpoch + 2, BaseEpoch + MAX_EPOCH_ADVANCE + 2}

FramePrefixes == {BaseEpoch - 1, BaseEpoch + 2, BaseEpoch + MAX_EPOCH_ADVANCE + 2}

NextFrame ==
  \/ \E e \in PipeEpochs : UpdateEncryptionEpoch("enc", e)
  \/ EncryptOutbound(ENVELOPE_1, RECORD_1, DEFAULT_PADDING_BUCKETS, DEK1, IV1)
  \/ \E e \in FramePrefixes : RewritePrefix(e)
  \/ TamperBlob
  \/ DecryptInbound("dec", RECORD_1, DEFAULT_PADDING_BUCKETS)
  \/ \E who \in Who, e \in FrameEpochs : GetKek(who, e)

SpecFrame == InitPrefix /\ [][NextFrame]_vars

\* The cache c2 differs from c at most by further memoized keys.
OnlyMemoized(c, c2) ==
  /\ c2.base_key = c.base_key
  /\ c2.base_epoch = c.base_epoch
  /\ c2.current_epoch = c.current_epoch
  /\ c2.space_id = c.space_id
  /\ \A e \in DOMAIN c.cache : e \in DOMAIN c2.cache /\ c2.cache[e] = c.cache[e]

\* C29: get_kek, encrypt_outbound and decrypt_inbound, successful or not, leave
\* base_key, base_epoch, current_epoch and space_id of the cache as they were
\* and neither remove nor replace a memoized key; a get_kek that fails with
\* BackwardDerivation or EpochTooFarAhead leaves the memoization map as it was.
C29_OnlyMemoization ==
  [][ (last'.op \in {"get_kek", "encrypt_outbound", "decrypt_inbound"}) =>
        /\ OnlyMemoized(enc, enc')
        /\ OnlyMemoized(dec, dec')
        /\ (/\ last'.op = "get_kek"
            /\ last'.res.err \in {"BackwardDerivation", "EpochTooFarAhead"})
             => (enc'.cache = enc.cache /\ dec'.cache = dec.cache)
    ]_vars

\* The reader holds memoized keys and has just failed a decrypt_inbound at the
\* unwrap, after deriving the key of the claimed epoch.
C29_Witness ==
  /\ last.op = "decrypt_inbound"
  /\ last.res = Err("UnwrapFailed")
  /\ ClaimedEpoch # wire.epoch
  /\ ClaimedEpoch \in DOMAIN dec.cache
  /\ Cardinality(DOMAIN dec.cache) >= 2
  /\ dec.base_epoch = BaseEpoch

-----------------------------------------------------------------------------
(* The plaintext DEK buffer of the pipeline.  For a call of encrypt_outbound *)
(* or decrypt_inbound: whether the function came to hold a plaintext DEK     *)
(* (`let mut dek = ..`), and whether `dek.zeroize()` ran before it returned.  *)

NoDek == [held |-> FALSE, zeroized |-> FALSE]
DekLeft == [held |-> TRUE, zeroized |-> FALSE]
DekZeroized == [held |-> TRUE, zeroized |-> TRUE]

\* encrypt_outbound: encode_envelope(..)? and pad_to_bucket(..)? return before
\* generate_dek(); get_kek(epoch)?, encrypt_v4(..)? and wrap_dek(..)? return
\* between generate_dek() and dek.zeroize().
encrypt_outbound_dek(envelope, record_id, c, padding_buckets, dek, iv) ==
  LET context == Some(Context(c.space_id, record_id))
      epoch == c.current_epoch
      WithBlob(blob, kek) ==
        IF ~blob.ok THEN DekLeft
        ELSE IF ~wrap_dek(dek, kek, epoch).ok THEN DekLeft
        ELSE DekZeroized
      WithKek(padded, kek) ==
        IF ~kek.res.ok THEN DekLeft
        ELSE WithBlob(encrypt_v4(padded, dek, context, iv), kek.res.val)
      WithPadded(padded) ==
        IF ~padded.ok THEN NoDek ELSE WithKek(padded.val, get_kek(c, epoch))
      WithCbor(cbor) ==
        IF ~cbor.ok THEN NoDek ELSE WithPadded(pad_to_bucket(cbor.val, padding_buckets))
  IN WithCbor(encode_envelope(envelope))

\* decrypt_inbound: peek_epoch(..)?, get_kek(..)? and unwrap_dek(..)? return
\* before there is a DEK; the result of decrypt_v4 is held while dek.zeroize()
\* runs and is only then taken with `?`.
decrypt_inbound_dek(blob, wrapped_dek, record_id, c, padding_buckets) ==
  LET WithKek(kek) ==
        IF ~kek.res.ok THEN NoDek
        ELSE IF ~unwrap_dek(wrapped_dek, kek.res.val).ok THEN NoDek
        ELSE DekZeroized
      WithEpoch(dek_epoch) ==
        IF ~dek_epoch.ok THEN NoDek ELSE WithKek(get_kek(c, dek_epoch.val))
  IN WithEpoch(peek_epoch(wrapped_dek))

(* Specification of the DEK's lifetime: a writer whose base key is a 32-byte *)
(* or a 16-byte key advances its epoch, possibly beyond what its cache       *)
(* derives, and encrypts with a bucket list that fits the envelope or not;   *)
(* the relay may damage the blob; a reader with the writer's or another key  *)
(* decrypts.                                                                  *)

DekBuckets == {DEFAULT_PADDING_BUCKETS, <<8>>}
DekLifeEpochs == {BaseEpoch + 1, BaseEpoch + MAX_EPOCH_ADVANCE + 1}

EncryptOutboundDek(envelope, record_id, padding_buckets, dek, iv) ==
  /\ \E r \in {encrypt_outbound(envelope, record_id, enc, padding_buckets, dek, iv)} :
       /\ enc' = r.cache
       /\ wire' = IF r.res.ok
                  THEN [kind |-> "pair", blob |-> r.res.val.blob,
                        wrapped_dek |-> r.res.val.wrapped_dek,
                        envelope |-> envelope, record_id |-> record_id,
                        context |-> Some(Context(enc.space_id, record_id)),
                        padding_buckets |-> padding_buckets,
                        epoch |-> enc.current_epoch, dek |-> dek]
                  ELSE wire
       /\ last' = [op |-> "encrypt_outbound", ok |-> r.res.ok, err |-> r.res.err,
                   dek |-> encrypt_outbound_dek(envelope, record_id, enc, padding_buckets,
                                                dek, iv)]
  /\ UNCHANGED <<dec, dk, rw, ch, mb>>

DecryptInboundDek(record_id, padding_buckets) ==
  /\ wire.kind = "pair"
  /\ \E r \in {decrypt_inbound(wire.blob, wire.wrapped_dek, record_id, dec,
                               padding_buckets)} :
       /\ dec' = r.cache
       /\ last' = [op |-> "decrypt_inbound", ok |-> r.res.ok, err |-> r.res.err,
                   dek |-> decrypt_inbound_dek(wire.blob, wire.wrapped_dek, record_id, dec,
                                               padding_buckets)]
  /\ UNCHANGED <<enc, wire, dk, rw, ch, mb>>

InitDekLife ==
  /\ enc \in {NewCache(K1, BaseEpoch, SPACE_A), NewCache(SHORT_KEY, BaseEpoch, SPACE_A)}
  /\ dec \in {NewCache(K1, BaseEpoch, SPACE_A), NewCache(K2, BaseEpoch, SPACE_A)}
  /\ wire = NoWire
  /\ last = Idle
  /\ dk = Parked /\ rw = Parked /\ ch = Parked /\ mb = Parked

NextDekLife ==
  \/ \E e \in DekLifeEpochs : UpdateEncryptionEpoch("enc", e)
  \/ \E buckets \in DekBuckets, rid \in RecordIds :
       EncryptOutboundDek(ENVELOPE_1, rid, buckets, DEK1, IV1)
  \/ TamperBlob
  \/ \E buckets \in DekBuckets, rid \in RecordIds : DecryptInboundDek(rid, buckets)

SpecDekLife == InitDekLife /\ [][NextDekLife]_vars

PipelineReturned == last.op \in {"encrypt_outbound", "decrypt_inbound"}

\* C30: on every return of encrypt_outbound and decrypt_inbound, error returns
\* included, a plaintext DEK that the call held has been zeroized.
C30_DekZeroizedOnReturn ==
  (PipelineReturned /\ last.dek.held) => last.dek.zeroized

\* What holds: decrypt_inbound zeroizes the DEK it unwrapped on every return,
\* and encrypt_outbound zeroizes the DEK it generated when it returns a pair.
C30_ZeroizedUnlessEarlyReturn ==
  (PipelineReturned /\ last.dek.held) =>
    (last.dek.zeroized <=> (last.op = "decrypt_inbound" \/ last.ok))

\* encrypt_outbound has generated a DEK and returns EpochTooFarAhead with the
\* DEK as it was.
C30_Witness ==
  /\ last.op = "encrypt_outbound"
  /\ last.err = "EpochTooFarAhead"
  /\ last.dek = DekLeft

-----------------------------------------------------------------------------
(* The encryption epoch *)

\* C31: in every state the cache reaches through update_encryption_epoch,
\* get_kek, encrypt_outbound and decrypt_inbound,
\* base_epoch <= current_epoch <= base_epoch + MAX_EPOCH_ADVANCE, and the KEK
\* lookup of encrypt_outbound fails neither with BackwardDerivation nor with
\* EpochTooFarAhead.
C31_EncryptionEpochDerivable ==
  /\ enc.base_epoch <= enc.current_epoch
  /\ enc.current_epoch <= enc.base_epoch + MAX_EPOCH_ADVANCE
  /\ last.op = "encrypt_outbound" =>
       last.err \notin {"BackwardDerivation", "EpochTooFarAhead"}

\* What holds: current_epoch is never below base_epoch, encrypt_outbound never
\* fails with BackwardDerivation, and it fails with EpochTooFarAhead exactly
\* when current_epoch has been set more than MAX_EPOCH_ADVANCE above base_epoch.
C31_EpochNotBelowBase ==
  /\ enc.base_epoch <= enc.current_epoch
  /\ last.op = "encrypt_outbound" =>
       /\ last.err # "BackwardDerivation"
       /\ last.err = "EpochTooFarAhead" <=>
            enc.current_epoch - enc.base_epoch > MAX_EPOCH_ADVANCE

\* update_encryption_epoch took an epoch beyond the cap and encrypt_outbound
\* was refused.
C31_Witness ==
  /\ last.op = "encrypt_outbound"
  /\ last.err = "EpochTooFarAhead"
  /\ enc.current_epoch = enc.base_epoch + MAX_EPOCH_ADVANCE + 1

-----------------------------------------------------------------------------
(* The memoization map *)

\* The memoized epochs of c are base_epoch+1..=m for some m within the cap, and
\* each memoized key is derived from the key of the epoch before it.
GapFree(c) ==
  LET n == Cardinality(DOMAIN c.cache) IN
  /\ DOMAIN c.cache = (c.base_epoch + 1) .. (c.base_epoch + n)
  /\ n <= MAX_EPOCH_ADVANCE
  /\ \A e \in DOMAIN c.cache :
       derive_next_epoch_key(IF e = c.base_epoch + 1 THEN c.base_key ELSE c.cache[e - 1],
                             c.space_id, e) = Ok(c.cache[e])

\* C32: in every reachable state the memoized epochs of a cache with base
\* epoch b are exactly b+1..=m for some m <= b + MAX_EPOCH_ADVANCE, or none:
\* at most MAX_EPOCH_ADVANCE keys, none for an epoch <= b, each the ratchet key
\* of its epoch, also when the epochs asked for are the prefixes of wrapped
\* DEKs handed to decrypt_inbound.
C32_GapFreeMemoization == GapFree(enc) /\ GapFree(dec)

\* A reader was handed a pair whose prefix names the last derivable epoch and
\* holds the MAX_EPOCH_ADVANCE keys up to it.
C32_Witness ==
  /\ DecryptedPair
  /\ ClaimedEpoch = dec.base_epoch + MAX_EPOCH_ADVANCE
  /\ Cardinality(DOMAIN dec.cache) = MAX_EPOCH_ADVANCE
  /\ last.res = Err("UnwrapFailed")

-----------------------------------------------------------------------------
(* Specification of rotation over unauthenticated labels: the relay holds    *)
(* DEKs wrapped under any key of the chain with any epoch label, the label   *)
(* being the four bytes in front that nothing authenticates; rewrap_deks     *)
(* rotates to a key of the chain.                                            *)

NextRotate ==
  \/ \E id \in RecordNames, k \in RewrapEpochs, e \in RewrapEpochs :
       StoreDek(id, RewrapChainKey(k), e)
  \/ \E c \in RewrapEpochs, n \in RewrapEpochs : RewrapDeks(c, RewrapChainKey(n), n)

SpecRotate == InitRewrap /\ [][NextRotate]_vars

\* The stored pair p appears in the output re-wrapped under new_key.
RewrappedInOutput(p) ==
  \E j \in DOMAIN rw.res.val :
    /\ rw.res.val[j][1] = p.id
    /\ unwrap_dek(rw.res.val[j][2], rw.new_key) = Ok([dek |-> p.dek, epoch |-> rw.new_epoch])

\* C33: after a successful rewrap_deks every input wrapped DEK either appears
\* in the output re-wrapped under new_key or itself unwraps under new_key.
C33_NoDekLeftBehind ==
  (Rewrapped /\ rw.res.ok) =>
    \A i \in DOMAIN rw.stored :
      RewrappedInOutput(rw.stored[i]) \/ unwrap_dek(rw.stored[i].w, rw.new_key).ok

\* What holds: after a successful rewrap_deks every input whose prefix is not
\* new_epoch appears in the output re-wrapped under new_key, and the output has
\* one pair for each of them; an input whose prefix is new_epoch is left out
\* whatever key it is wrapped under.
C33_LeftOutByLabel ==
  (Rewrapped /\ rw.res.ok) =>
    /\ \A i \in DOMAIN rw.stored :
         rw.stored[i].epoch # rw.new_epoch => RewrappedInOutput(rw.stored[i])
    /\ Len(rw.res.val) = Len(NotAtTarget)

\* A DEK wrapped under the key of epoch 1 and labelled 2 goes through a
\* rotation from 1 to 2: the call succeeds, returns nothing, and the DEK does
\* not unwrap under the new key.
C33_Witness ==
  /\ Rewrapped /\ rw.res.ok
  /\ rw.current_epoch = 1 /\ rw.new_epoch = 2
  /\ Len(rw.stored) = 1
  /\ rw.stored[1].kek = RewrapChainKey(1) /\ rw.stored[1].epoch = 2
  /\ rw.res.val = <<>>
  /\ ~unwrap_dek(rw.stored[1].w, rw.new_key).ok

-----------------------------------------------------------------------------
(* Specification of rotation followed by reading: the writer pushes a pair   *)
(* at some epoch of the chain, rewrap_deks re-wraps its wrapped DEK for a    *)
(* later epoch of the chain, and readers with a new cache, based at the        *)
(* rotation's current epoch or at its new epoch, decrypt the unchanged blob  *)
(* with the re-wrapped or with the old wrapped DEK.                           *)

RotateFrom == {BaseEpoch, BaseEpoch + 1}
RotateTo == {BaseEpoch + 1, BaseEpoch + 2, BaseEpoch + MAX_EPOCH_ADVANCE + 1}

\* rewrap_deks is called on the wrapped DEK of the pair pushed last.
RewrapPushed(current_epoch, new_epoch) ==
  /\ wire.kind = "pair"
  /\ rw.stage = "storing"
  /\ rw' = [stage |-> "rewrapped", current_epoch |-> current_epoch,
            new_epoch |-> new_epoch, w |-> wire.wrapped_dek,
            res |-> rewrap_deks(<<<<"rec-a", wire.wrapped_dek>>>>, ChainKey(current_epoch),
                                current_epoch, ChainKey(new_epoch), new_epoch, SPACE_A)]
  /\ last' = [op |-> "rewrap_deks"]
  /\ UNCHANGED <<enc, dec, wire, dk, ch, mb>>

\* A reader based at one end of the rotation decrypts the blob with the
\* re-wrapped DEK (when there is one) or with the old one.
ReadAfterRotation(base, which) ==
  /\ wire.kind = "pair"
  /\ rw.stage = "rewrapped"
  /\ rw.w = wire.wrapped_dek
  /\ which = "rewrapped" => (rw.res.ok /\ Len(rw.res.val) = 1)
  /\ \E r \in {decrypt_inbound(wire.blob,
                               IF which = "rewrapped" THEN rw.res.val[1][2] ELSE rw.w,
                               wire.record_id,
                               IF base = "current"
                               THEN NewCache(ChainKey(rw.current_epoch), rw.current_epoch, SPACE_A)
                               ELSE NewCache(ChainKey(rw.new_epoch), rw.new_epoch, SPACE_A),
                               wire.padding_buckets)} :
       last' = [op |-> "decrypt_inbound", base |-> base, which |-> which, res |-> r.res]
  /\ UNCHANGED <<enc, dec, wire, dk, rw, ch, mb>>

InitCompose ==
  /\ enc = NewCache(K1, BaseEpoch, SPACE_A)
  /\ rw = [stage |-> "storing"]
  /\ wire = NoWire
  /\ last = Idle
  /\ dec = Parked /\ dk = Parked /\ ch = Parked /\ mb = Parked

NextCompose ==
  \/ \E e \in PipeEpochs : UpdateEncryptionEpoch("enc", e)
  \/ \E envelope \in Envelopes, rid \in RecordIds :
       EncryptOutbound(envelope, rid, DEFAULT_PADDING_BUCKETS, DEK1, IV1)
  \/ \E c \in RotateFrom, n \in RotateTo : RewrapPushed(c, n)
  \/ \E base \in {"current", "new"}, which \in {"rewrapped", "old"} :
       ReadAfterRotation(base, which)

SpecCompose == InitCompose /\ [][NextCompose]_vars

\* The pair was pushed at an epoch in [current_epoch, new_epoch), re-wrapped
\* with success, and read.
ReadRotated ==
  /\ last.op = "decrypt_inbound"
  /\ rw.res.ok
  /\ rw.current_epoch <= wire.epoch /\ wire.epoch < rw.new_epoch

\* C34: a pair pushed at an epoch in [current_epoch, new_epoch) and re-wrapped
\* by rewrap_deks for the forward-derived key of new_epoch decrypts, blob
\* unchanged, to the original envelope for a cache based at
\* (current_key, current_epoch) and for one based at (new_key, new_epoch); the
\* old wrapped DEK is refused with BackwardDerivation by the cache based at
\* new_epoch.
C34_RotationThenRead ==
  ReadRotated =>
    /\ last.which = "rewrapped" => SameResult(last.res, Ok(wire.envelope))
    /\ (last.which = "old" /\ last.base = "new") => last.res.err = "BackwardDerivation"

\* What holds: the same, with the cache based at current_epoch returning the
\* envelope when new_epoch is at most MAX_EPOCH_ADVANCE above current_epoch and
\* EpochTooFarAhead when it is further.
C34_RotationThenReadWithinCap ==
  ReadRotated =>
    /\ (last.which = "rewrapped" /\ last.base = "new") =>
         SameResult(last.res, Ok(wire.envelope))
    /\ (last.which = "rewrapped" /\ last.base = "current") =>
         IF rw.new_epoch - rw.current_epoch <= MAX_EPOCH_ADVANCE
         THEN SameResult(last.res, Ok(wire.envelope))
         ELSE last.res.err = "EpochTooFarAhead"
    /\ (last.which = "old" /\ last.base = "new") => last.res.err = "BackwardDerivation"

\* A pair pushed at epoch BaseEpoch + 1 was rotated from BaseEpoch to
\* BaseEpoch + 2 and the re-wrapped DEK opens the blob for the reader based at
\* the rotation's current epoch.
C34_Witness ==
  /\ ReadRotated
  /\ wire.epoch = BaseEpoch + 1
  /\ rw.current_epoch = BaseEpoch /\ rw.new_epoch = BaseEpoch + 2
  /\ last.which = "rewrapped" /\ last.base = "current"
  /\ last.res.ok
  /\ last.res.val = wire.envelope

-----------------------------------------------------------------------------
(* Specification of chains assembled by a key holder: entries are appended  *)
(* by sign_edit_entry or built by hand, the holder of a signing key choosing *)
(* t, linking p to the previous entry and signing the message that           *)
(* build_edit_signing_message gives; then the chain is verified.             *)

\* An entry built without sign_edit_entry, linked to the chain's last entry.
AssembleEntry(name, timestamp) ==
  /\ ch.stage = "building"
  /\ ~ch.verdict.some
  /\ Len(ch.entries) < MaxChainLen
  /\ LET author == encode_did_key(SigningKey(name)).val
         prev_hash == IF ch.entries = <<>> THEN None
                      ELSE Some(uint8_to_hex(sha256_hash(ch.entries[Len(ch.entries)].s)))
         s == sign(SigningKey(name),
                   build_edit_signing_message(COLLECTION, RECORD_ID, author, timestamp,
                                              prev_hash, <<D_NAME>>)).val
     IN ch' = [ch EXCEPT !.entries =
                 Append(@, [a |-> author, t |-> timestamp, d |-> <<D_NAME>>,
                            p |-> prev_hash, s |-> s,
                            k |-> export_public_key_jwk(SigningKey(name))])]
  /\ UNCHANGED <<enc, dec, wire, last, dk, rw, mb>>

NextAssemble ==
  \/ \E name \in Authors, timestamp \in Timestamps :
       SignEditEntry(name, timestamp, <<D_NAME>>)
  \/ \E name \in Authors, timestamp \in Timestamps : AssembleEntry(name, timestamp)
  \/ VerifyEditChain(COLLECTION, RECORD_ID)

SpecAssemble == InitChain /\ [][NextAssemble]_vars

ChainAccepted == ch.verdict.some /\ ch.verdict.val.valid

\* C35: on every entry list that verify_edit_chain accepts, t is
\* non-decreasing along the chain.
C35_AcceptedChainsOrdered ==
  ChainAccepted =>
    \A i \in DOMAIN ch.entries : i > 1 => ~U64Less(ch.entries[i].t, ch.entries[i - 1].t)

\* What holds of an accepted list: the first entry has no p, every later entry
\* has the hash of the signature before it as p, and every entry verifies.
C35_AcceptedChainsLinked ==
  ChainAccepted =>
    \A i \in DOMAIN ch.entries :
      /\ verify_edit_entry(ch.entries[i], COLLECTION, RECORD_ID)
      /\ IF i = 1 THEN ch.entries[i].p = None
         ELSE ch.entries[i].p = Some(uint8_to_hex(sha256_hash(ch.entries[i - 1].s)))

\* A key holder's chain whose second entry is earlier than its first was
\* accepted.
C35_Witness ==
  /\ ChainAccepted
  /\ Len(ch.entries) = 2
  /\ ch.entries[1].t = LATER_TIMESTAMP
  /\ ch.entries[2].t = FIRST_TIMESTAMP

-----------------------------------------------------------------------------
(* Prefixes and suffixes of accepted chains *)

PrefixOf(entries, k) == SubSeq(entries, 1, k)
SuffixFrom(entries, k) == SubSeq(entries, k, Len(entries))

\* C39 as stated: verify_edit_chain accepts every prefix of a list it accepts,
\* the empty list included, and refuses every proper suffix of an accepted
\* list of two or more entries.
C39_PrefixClosedSuffixRefused ==
  ChainAccepted =>
    /\ \A k \in 0 .. Len(ch.entries) :
         verify_edit_chain(PrefixOf(ch.entries, k), ch.verdict.val.collection,
                           ch.verdict.val.record_id)
    /\ Len(ch.entries) >= 2 =>
         \A k \in 2 .. (Len(ch.entries) + 1) :
           ~verify_edit_chain(SuffixFrom(ch.entries, k), ch.verdict.val.collection,
                              ch.verdict.val.record_id)

\* C39: verify_edit_chain accepts every prefix of a list it accepts, the empty
\* list included, and refuses every proper suffix that is not empty.
C39_PrefixClosedNonEmptySuffixRefused ==
  ChainAccepted =>
    /\ \A k \in 0 .. Len(ch.entries) :
         verify_edit_chain(PrefixOf(ch.entries, k), ch.verdict.val.collection,
                           ch.verdict.val.record_id)
    /\ \A k \in 2 .. Len(ch.entries) :
         ~verify_edit_chain(SuffixFrom(ch.entries, k), ch.verdict.val.collection,
                            ch.verdict.val.record_id)

\* An accepted chain of three entries: cut after the second it is accepted,
\* without its first entry it is refused.
C39_Witness ==
  /\ ChainAccepted
  /\ Len(ch.entries) = 3
  /\ verify_edit_chain(PrefixOf(ch.entries, 2), COLLECTION, RECORD_ID)
  /\ ~verify_edit_chain(SuffixFrom(ch.entries, 2), COLLECTION, RECORD_ID)

-----------------------------------------------------------------------------
(* The UCAN inside an accepted membership entry *)

\* The token of the entry verifies under the public key of the person its
\* payload names as issuer.
UcanSignedByIssuer ==
  verify_ucan_signature(mb.entry.ucan, export_public_key_jwk(SigningKey(mb.issuer))).val

\* C36 as stated: every entry that verify_membership_entry accepts, whatever
\* its type and whether or not the UCAN issuer is its audience, embeds a UCAN
\* that was signed with the key of the issuer it names.
C36_AcceptedUcanGenuine ==
  Accepted => UcanSignedByIssuer

\* C36, what the code gives: the token's own signature counts only for a
\* self-issued UCAN; for the other tokens an accepted delegation or revoked
\* entry was signed by the issuer, who thereby vouches for the token, and an
\* accepted or declined entry was signed by the audience alone.
C36_SelfIssuedUcanGenuine ==
  Accepted =>
    /\ mb.issuer = mb.audience => UcanSignedByIssuer
    /\ mb.entry.entry_type \in {"d", "r"} => mb.signed_by = mb.issuer
    /\ mb.entry.entry_type \in {"a", "x"} => mb.signed_by = mb.audience

\* An accepted entry of type "accepted" written by the audience around a token
\* that names another issuer and was not signed by that issuer.
C36_Witness ==
  /\ Accepted
  /\ mb.entry.entry_type = "a"
  /\ mb.issuer # mb.audience
  /\ mb.ucan_signer # mb.issuer
  /\ ~UcanSignedByIssuer

-----------------------------------------------------------------------------
(* Specification of a changed membership entry: the expected signer writes   *)
(* an entry with all nine fields, one field of the stored entry (or the      *)
(* space it is verified for) is changed, and both entries are verified.      *)

\* Option<u32>::None and Option<serde_json::Value>::None
NoEpoch == [some |-> FALSE, val |-> 0]
NoJwk == [some |-> FALSE, val |-> [kty |-> "", crv |-> "", x |-> <<>>, y |-> <<>>]]

\* The same key with one more member in its JSON object.
WithKeyUse(jwk) ==
  [kty |-> jwk.kty, crv |-> jwk.crv, x |-> jwk.x, y |-> jwk.y, use |-> "sig"]

EntryFields ==
  {"ucan", "entry_type", "signer_public_key", "signer_handle", "recipient_handle",
   "epoch", "mailbox_id", "public_key_jwk", "space_id"}

EntryEpochs == {NoEpoch, Some(1), Some(2)}
MailboxIds == {NoHandle, Some("mailbox-1"), Some("mailbox-2")}
RecipientJwks == {NoJwk} \cup {Some(export_public_key_jwk(SigningKey(n))) : n \in {"bob", "carol"}}
ChangedHandles == Handles \cup {Some(""), Some("mallory@example.com")}

\* The tokens a stored token can be replaced with: the same claims signed by
\* someone else, another audience, and the token without its signature part.
OtherUcans(ucan) ==
  {issue_root_ucan(SigningKey(signer), DidOf("alice"), DidOf(member), SPACE_A).val :
     signer \in {"alice", "carol"}, member \in {"alice", "bob"}}
  \cup {SubSeq(ucan, 1, 2)}

\* The values one field of an entry can be changed to.
FieldValues(field, entry) ==
  CASE field = "ucan" -> OtherUcans(entry.ucan)
    [] field = "entry_type" -> EntryTypes
    [] field = "signer_public_key" ->
         {export_public_key_jwk(SigningKey(n)) : n \in KeyNames}
         \cup {WithKeyUse(entry.signer_public_key)}
    [] field = "signer_handle" -> ChangedHandles
    [] field = "recipient_handle" -> ChangedHandles
    [] field = "epoch" -> EntryEpochs
    [] field = "mailbox_id" -> MailboxIds
    [] field = "public_key_jwk" -> RecipientJwks
    [] OTHER -> {}

\* The person the entry type makes the signer signs an entry for SPACE_A.
WriteFullEntry(entry_type, signer_handle, recipient_handle, epoch, mailbox_id, public_key_jwk) ==
  /\ mb.stage = "issued"
  /\ \E signer \in {IF entry_type \in {"d", "r"} THEN mb.issuer ELSE mb.audience} :
       \E jwk \in {export_public_key_jwk(SigningKey(signer))} :
         \E s \in {sign(SigningKey(signer),
                        build_membership_signing_message(
                          entry_type, SPACE_A, encode_did_key_from_jwk(jwk).val, mb.ucan,
                          IF signer_handle.some THEN signer_handle.val ELSE "",
                          IF recipient_handle.some THEN recipient_handle.val ELSE ""))} :
           /\ s.ok
           /\ mb' = [stage |-> "signed", issuer |-> mb.issuer, audience |-> mb.audience,
                     ucan_signer |-> mb.ucan_signer,
                     entry |-> [ucan |-> mb.ucan, entry_type |-> entry_type,
                                signature |-> s.val, signer_public_key |-> jwk,
                                epoch |-> epoch, mailbox_id |-> mailbox_id,
                                public_key_jwk |-> public_key_jwk,
                                signer_handle |-> signer_handle,
                                recipient_handle |-> recipient_handle]]
  /\ UNCHANGED <<enc, dec, wire, last, dk, rw, ch>>

\* One field of the stored entry is given another value; for "space_id" the
\* entry is kept and the reader verifies it for another space.
ChangeEntryField(field) ==
  /\ mb.stage = "signed"
  /\ \/ /\ field = "space_id"
        /\ mb' = [stage |-> "changed", issuer |-> mb.issuer, audience |-> mb.audience,
                  ucan_signer |-> mb.ucan_signer, entry |-> mb.entry, field |-> field,
                  changed |-> mb.entry, space_id |-> SPACE_B]
     \/ /\ field # "space_id"
        /\ \E v \in FieldValues(field, mb.entry) :
             /\ v # mb.entry[field]
             /\ mb' = [stage |-> "changed", issuer |-> mb.issuer,
                       audience |-> mb.audience, ucan_signer |-> mb.ucan_signer,
                       entry |-> mb.entry, field |-> field,
                       changed |-> [mb.entry EXCEPT ![field] = v], space_id |-> SPACE_A]
  /\ UNCHANGED <<enc, dec, wire, last, dk, rw, ch>>

\* verify_membership_entry on the entry as written and on the changed one.
VerifyChangedEntry ==
  /\ mb.stage = "changed"
  /\ mb' = [stage |-> "reverified", issuer |-> mb.issuer, audience |-> mb.audience,
            ucan_signer |-> mb.ucan_signer, entry |-> mb.entry, field |-> mb.field,
            changed |-> mb.changed, space_id |-> mb.space_id,
            before |-> verify_membership_entry(mb.entry, SPACE_A),
            after |-> verify_membership_entry(mb.changed, mb.space_id)]
  /\ UNCHANGED <<enc, dec, wire, last, dk, rw, ch>>

NextTamper ==
  \/ \E member \in {"alice", "bob"}, signer \in {"alice", "carol"} :
       IssueUcan("alice", member, signer)
  \/ \E entry_type \in EntryTypes, signer_handle \in Handles, recipient_handle \in Handles,
        epoch \in {NoEpoch, Some(1)}, mailbox_id \in {NoHandle, Some("mailbox-1")},
        public_key_jwk \in {NoJwk, Some(export_public_key_jwk(SigningKey("bob")))} :
       WriteFullEntry(entry_type, signer_handle, recipient_handle, epoch, mailbox_id,
                      public_key_jwk)
  \/ \E field \in EntryFields : ChangeEntryField(field)
  \/ VerifyChangedEntry

SpecTamper == InitMember /\ [][NextTamper]_vars

\* The entry as written was accepted, and then verified again after a change.
AcceptedThenChanged ==
  mb.stage = "reverified" /\ mb.before.ok /\ mb.before.val

StillAccepted == mb.after.ok /\ mb.after.val

\* Option<String> as the signing message sees it.
HandleText(h) == IF h.some THEN h.val ELSE ""

\* C38 as stated: once an entry is accepted, changing any single one of its
\* fields (ucan, entry type, signer key, signer handle, recipient handle,
\* epoch, mailbox id, recipient key), or verifying it for another space, makes
\* verify_membership_entry return false or an error.
C38_EveryFieldTamperEvident ==
  AcceptedThenChanged => ~StillAccepted

\* C38, what the code gives: a change is refused exactly when it changes the
\* signed message or the key it is verified under, which covers the ucan, the
\* entry type, the space, the point of the signer key and the text of the two
\* handles; a change of epoch, mailbox id or recipient key, a handle going from
\* absent to empty, and a signer key with one more member are accepted.
C38_SignedFieldsTamperEvident ==
  AcceptedThenChanged =>
    (StillAccepted <=>
       \/ mb.field \in {"epoch", "mailbox_id", "public_key_jwk"}
       \/ /\ mb.field \in {"signer_handle", "recipient_handle"}
          /\ HandleText(mb.changed[mb.field]) = HandleText(mb.entry[mb.field])
       \/ /\ mb.field = "signer_public_key"
          /\ import_public_key_jwk(mb.changed.signer_public_key)
               = import_public_key_jwk(mb.entry.signer_public_key))

\* An accepted delegation that is accepted again with another epoch.
C38_Witness ==
  /\ AcceptedThenChanged
  /\ mb.entry.entry_type = "d"
  /\ mb.field = "epoch"
  /\ mb.changed.epoch # mb.entry.epoch
  /\ StillAccepted

-----------------------------------------------------------------------------
(* Specification of diff and reconstruction together: a document starts      *)
(* empty and is edited up to MaxEdits times, every edit is recorded as the   *)
(* entry that carries value_diff of the document before and after, and       *)
(* reconstruct_state is called on the entries.                               *)

MaxEdits == 2

C_ONE == JObj(MapInsert(EmptyMap, "c", JNum(1)))
C_NULL == JObj(MapInsert(EmptyMap, "c", JNull))
C_ONE_B_NULL == JObj(MapInsert(MapInsert(EmptyMap, "c", JNum(1)), "b", JNull))

EditedDocuments ==
  {JObj(EmptyMap),
   JObj(MapInsert(EmptyMap, "a", JNum(1))),
   JObj(MapInsert(EmptyMap, "a", JNull)),
   JObj(MapInsert(EmptyMap, "a", C_ONE)),
   JObj(MapInsert(EmptyMap, "a", C_NULL)),
   JObj(MapInsert(EmptyMap, "a", C_ONE_B_NULL)),
   JObj(MapInsert(MapInsert(EmptyMap, "a", C_ONE), "x", JArr(<<JNum(1)>>))),
   JObj(MapInsert(EmptyMap, DOTTED_KEY, JNum(1))),
   JObj(MapInsert(MapInsert(EmptyMap, "a", JNum(1)), DOTTED_KEY, JNum(1))),
   JObj(MapInsert(EmptyMap, "", JNum(1))),
   JObj(MapInsert(EmptyMap, "constructor", JNum(1)))}

\* The document is replaced by new and the edit is signed into the chain with
\* the diffs between the two.
EditDocument(new) ==
  /\ ch.stage = "editing"
  /\ Len(ch.entries) < MaxEdits
  /\ \E old \in {IF ch.docs = <<>> THEN JObj(EmptyMap) ELSE ch.docs[Len(ch.docs)]} :
       \E r \in {sign_edit_entry(SigningKey("alice"),
                                 export_public_key_jwk(SigningKey("alice")),
                                 COLLECTION, RECORD_ID,
                                 encode_did_key(SigningKey("alice")).val,
                                 FIRST_TIMESTAMP, value_diff(old, new, None),
                                 IF ch.entries = <<>> THEN None
                                 ELSE Some(ch.entries[Len(ch.entries)]), TRUE)} :
         /\ r.ok
         /\ ch' = [stage |-> "editing", docs |-> Append(ch.docs, new),
                   entries |-> Append(ch.entries, r.val)]
  /\ UNCHANGED <<enc, dec, wire, last, dk, rw, mb>>

ReconstructEdits(up_to_index) ==
  /\ ch.stage = "editing"
  /\ up_to_index < Len(ch.entries)
  /\ ch' = [stage |-> "rebuilt", docs |-> ch.docs, entries |-> ch.entries,
            up_to_index |-> up_to_index,
            res |-> reconstruct_state(ch.entries, up_to_index)]
  /\ UNCHANGED <<enc, dec, wire, last, dk, rw, mb>>

InitInverse ==
  /\ ch = [stage |-> "editing", docs |-> <<>>, entries |-> <<>>]
  /\ enc = Parked /\ dec = Parked /\ wire = NoWire /\ last = Idle
  /\ dk = Parked /\ rw = Parked /\ mb = Parked

NextInverse ==
  \/ \E new \in EditedDocuments : EditDocument(new)
  \/ \E up_to_index \in 0 .. MaxEdits : ReconstructEdits(up_to_index)

SpecInverse == InitInverse /\ [][NextInverse]_vars

Rebuilt == ch.stage = "rebuilt"

\* The document before edit i (counted from 1).
DocumentBefore(i) == IF i = 1 THEN JObj(EmptyMap) ELSE ch.docs[i - 1]

PlainKey(key) ==
  /\ key # DOTTED_KEY
  /\ \A i \in DOMAIN BANNED_SEGMENTS : BANNED_SEGMENTS[i] # key

\* The edit from old_obj to new_obj adds no key with value null and reaches no
\* changed value through a key that holds a dot or is a banned segment, where
\* the values reached are those of the keys of the two objects and, when both
\* values of a key are objects, of their keys in turn.
RECURSIVE PlainEdit(_, _)
PlainEdit(old_obj, new_obj) ==
  \A k \in DOMAIN old_obj \cup DOMAIN new_obj :
    IF k \in DOMAIN old_obj /\ k \in DOMAIN new_obj /\ old_obj[k] = new_obj[k] THEN TRUE
    ELSE IF k \notin DOMAIN old_obj /\ new_obj[k] = JNull THEN FALSE
    ELSE /\ PlainKey(k)
         /\ (k \in DOMAIN old_obj /\ k \in DOMAIN new_obj
               /\ old_obj[k].t = "obj" /\ new_obj[k].t = "obj")
              => PlainEdit(old_obj[k].o, new_obj[k].o)

\* C37 as stated: with every entry carrying the value_diff of the document
\* before and after its edit, starting from the empty document,
\* reconstruct_state(entries, k) is the document after edit k + 1, for all
\* documents, those with null values, dotted keys and nested objects included.
C37_DiffReconstructInverse ==
  Rebuilt => ch.res = Ok(ch.docs[ch.up_to_index + 1])

\* C37, what the code gives: reconstruct_state(entries, k) is the document
\* after edit k + 1 when none of the edits up to that one adds a key with
\* value null or changes a value under a dotted or banned key.
C37_InverseOnPlainEdits ==
  (/\ Rebuilt
   /\ \A i \in 1 .. ch.up_to_index + 1 :
        PlainEdit(DocumentBefore(i).o, ch.docs[i].o))
    => ch.res = Ok(ch.docs[ch.up_to_index + 1])

\* Two plain edits, the second setting a key of a nested object to null, and
\* the second document reconstructed.
C37_Witness ==
  /\ Rebuilt
  /\ ch.up_to_index = 1
  /\ ch.docs = <<JObj(MapInsert(EmptyMap, "a", C_ONE)), JObj(MapInsert(EmptyMap, "a", C_NULL))>>
  /\ ch.res = Ok(ch.docs[2])

====
